---------------------------- MODULE Spec2Model ----------------------------
(***************************************************************************)
(* Model of the PTO runtime2 orchestration core:                           *)
(*   - the strided Tensor descriptor and its overlap analysis              *)
(*     (runtime/tensor.h, runtime/tensor.cpp, tensor_orch.cpp),            *)
(*   - the TensorMap (hash index of recent producers backed by a ring      *)
(*     buffer pool, with lazy invalidation and chain truncation),          *)
(*   - the orchestrator's submit_task driving the TensorMap, with the      *)
(*     executor seen through last_task_alive.                              *)
(*                                                                         *)
(* C arrays are 0-based, TLA+ sequences 1-based: dimension i of the code   *)
(* is element i+1 of strides/repeats here.  Pool, bucket and task-slot     *)
(* indexes keep the code's 0-based numbering (functions over 0..n-1),      *)
(* with -1 for "none" as in the code.                                      *)
(***************************************************************************)
EXTENDS Integers, Sequences, FiniteSets, TLC

VARIABLES
    \* ---- overlap analysis (pure functions applied to drawn inputs) ----
    ovR,        \* the reader descriptor   (this)
    ovP,        \* the producer descriptor (pre_task_output)
    ndebug,     \* TRUE: built with NDEBUG (debug_assert is a no-op)
    ovFwd,      \* result of ovR.is_overlap(ovP)
    ovRev,      \* result of ovP.is_overlap(ovR)
    ovCx,       \* result of ovR.complex_overlap(ovP), called directly
    ovSegs,     \* what a ContiguousMemSegIterator over ovR yields until is_end
    ovBkt,      \* <<pto2_tensormap_hash of ovR, pto2_tensormap_hash of ovP>>
    ovPc,       \* "input" before the calls, "done" after
    \* ---- descriptor methods (constructor, optimize, view, reshape, transpose) ----
    tn,         \* [op, args, self, self_after, result, status, depth]: the last call
    \* ---- TensorMap, orchestrator, shared-memory header ----
    tm,                     \* PTO2TensorMap (orchestrator-private)
    tensormap_last_cleanup, \* orch->tensormap_last_cleanup
    last_task_alive,        \* header->last_task_alive (written by the executor)
    submitted_count,        \* header->submitted_count (written by the orchestrator)
    pc,                     \* where the orchestrator stands in submit_task
    cur,                    \* the submission in progress: [task_id, params, preds]
    par_idx,                \* the parameter the current loop of submit_task is at
    entry_offset,           \* pto2_tensormap_insert: the pool slot taken
    tasks,                  \* the task window: slot s holds the task last written to it
    lk,                     \* history: what the last lookup walked and unlinked
    \* ---- runtime: task window states, dependency lists, heap, executor ----
    window_bits,            \* log2 of PTO2_TASK_WINDOW_SIZE of this build
    prog,                   \* the orchestration program being run
    ip,                     \* the next operation of prog
    slot_status,            \* task window: slot -> Empty, Pending, Ready, Running, Done
    successors,             \* task window: slot -> successor list, head first
    heap,                   \* the scope-anchored bump arena
    bufs,                   \* the caller's own tensors, by name
    cores,                  \* worker core -> the task it runs, -1 when idle
    orchestrator_done,      \* header->orchestrator_done
    hist                    \* history of the run: decrements, allocations, dispatches

ovVars == <<ovR, ovP, ovFwd, ovRev, ovCx, ovSegs, ovBkt, ovPc>>
tmVars == <<tm, tensormap_last_cleanup, last_task_alive, submitted_count, pc, cur,
            par_idx, entry_offset, tasks, lk>>
rtVars == <<window_bits, prog, ip, slot_status, successors, heap, bufs, cores,
            orchestrator_done, hist>>
vars == <<ovVars, tn, ndebug, tmVars, rtVars>>

-----------------------------------------------------------------------------
(* Bounds of the model *)

\* versions of the drawn descriptors range over 0..MaxVersion
MaxVersion == 1

\* the task window holds 2^WindowBits slots (PTO2_TASK_WINDOW_SIZE, a power of two)
WindowBits == 1

\* the TensorMap is created with 2^BucketBits buckets
BucketBits == 1

\* entries of the TensorMap ring buffer pool (pool_size)
PoolSize == 3

\* retired tasks between two explicit cleanups (PTO2_TENSORMAP_CLEANUP_INTERVAL)
CleanupInterval == 2

\* submissions made by the orchestration program
MaxTasks == 4

-----------------------------------------------------------------------------
(* Tensor descriptor: tensor.h, struct Tensor *)

RUNTIME_MAX_TENSOR_DIMS == 8

DataTypes == {"FLOAT32", "BFLOAT16"}

\* data_type.h: bytes per element
get_element_size(dtype) == IF dtype = "FLOAT32" THEN 4 ELSE 2

Tensor(addr, size, start_offset, strides, repeats, dtype, version, overlap_type) ==
    [addr |-> addr, size |-> size, start_offset |-> start_offset,
     strides |-> strides, repeats |-> repeats, ndims |-> Len(strides),
     dtype |-> dtype, version |-> version, overlap_type |-> overlap_type]

\* struct Segment: half-open interval [begin, end)
Segment(b, e) == [begin |-> b, end |-> e]

line_segment_intersection(s, other) == s.end > other.begin /\ other.end > s.begin

\* the plausible slip for containment: strict at both ends
contains_Strict(s, other) == s.begin < other.begin /\ other.end < s.end

contains(s, other) == s.begin <= other.begin /\ other.end <= s.end

RECURSIVE fuzzy_end_offset(_, _)
fuzzy_end_offset(t, i) ==
    IF i = 0 THEN t.start_offset
    ELSE fuzzy_end_offset(t, i - 1) + t.strides[i] * (t.repeats[i] - 1)

\* a plausible slip: the end is the last offset reached, not one past it
get_fuzzy_seg_Closed(t) == Segment(t.start_offset, fuzzy_end_offset(t, t.ndims))

get_fuzzy_seg(t) == Segment(t.start_offset, fuzzy_end_offset(t, t.ndims) + 1)

\* is_valid_tensor, applied to a normalized descriptor
is_valid_tensor(t) ==
    /\ t.strides[t.ndims] = 1
    /\ \A i \in 2..t.ndims :
          /\ t.strides[i] <= t.strides[i - 1]
          /\ t.strides[i - 1] % t.strides[i] = 0
          /\ t.strides[i - 1] >= t.strides[i] * t.repeats[i]
    /\ get_fuzzy_seg(t).end * get_element_size(t.dtype) <= t.size

is_same_memref(t, other) == t.addr = other.addr

\* compares the first t.ndims strides; the arrays of the code have
\* RUNTIME_MAX_TENSOR_DIMS entries, the unused ones are not modelled, so the
\* comparison is made only between descriptors of equal ndims (as the caller does)
is_same_strides(t, other) == \A i \in 1..t.ndims : t.strides[i] = other.strides[i]

\* offset_to_ndims: divmod of start_offset down the stride vector
RECURSIVE offset_to_ndims_from(_, _, _)
offset_to_ndims_from(t, i, cur_offset) ==
    IF i > t.ndims THEN <<>>
    ELSE <<cur_offset \div t.strides[i]>>
         \o offset_to_ndims_from(t, i + 1, cur_offset % t.strides[i])

offset_to_ndims(t) == offset_to_ndims_from(t, 1, t.start_offset)

-----------------------------------------------------------------------------
(* ContiguousMemSegIterator: tensor.cpp 12-35, tensor.h 96-111 *)

ContiguousMemSegIterator(t) ==
    [cur_seg |-> Segment(t.start_offset, t.start_offset + t.repeats[t.ndims]),
     indexes |-> [i \in 1..t.ndims |-> 0]]

iter_is_end(t, it) == it.indexes[1] >= t.repeats[1]

\* a plausible slip: the jump to the next outer iteration does not take back
\* the span of the inner dimension
RECURSIVE iter_cascade_NoRewind(_, _, _, _)
iter_cascade_NoRewind(t, i, idx, begin) ==
    IF i < 2 THEN [indexes |-> idx, begin |-> begin]
    ELSE IF idx[i] = t.repeats[i]
         THEN iter_cascade_NoRewind(t, i - 1,
                  [idx EXCEPT ![i - 1] = idx[i - 1] + 1, ![i] = 0],
                  begin + t.strides[i - 1])
         ELSE iter_cascade_NoRewind(t, i - 1, idx, begin)

\* the cascade loop of operator++, i running from ndims-1 down to 1 (0-based),
\* here from ndims down to 2
RECURSIVE iter_cascade(_, _, _, _)
iter_cascade(t, i, idx, begin) ==
    IF i < 2 THEN [indexes |-> idx, begin |-> begin]
    ELSE IF idx[i] = t.repeats[i]
         THEN iter_cascade(t, i - 1,
                  [idx EXCEPT ![i - 1] = idx[i - 1] + 1, ![i] = 0],
                  begin + t.strides[i - 1] - t.strides[i] * t.repeats[i])
         ELSE iter_cascade(t, i - 1, idx, begin)

iter_next(t, it) ==
    LET n == t.ndims
        idx0 == [it.indexes EXCEPT ![n] = it.indexes[n] + t.repeats[n]]
        r == iter_cascade(t, n, idx0, it.cur_seg.begin + t.repeats[n])
    IN [cur_seg |-> Segment(r.begin, r.begin + t.repeats[n]), indexes |-> r.indexes]

NoSegments == [segs |-> <<>>, is_end |-> FALSE]

\* more steps than a descriptor inside its buffer has elements
IterFuel(t) == t.size + 1

\* one iterator used from its construction on: operator* and operator++ while
\* is_end is false; the segments it yields, and whether is_end became true
RECURSIVE iter_segments(_, _, _)
iter_segments(t, it, fuel) ==
    IF iter_is_end(t, it) THEN [segs |-> <<>>, is_end |-> TRUE]
    ELSE IF fuel = 0 THEN NoSegments
    ELSE LET rest == iter_segments(t, iter_next(t, it), fuel - 1)
         IN [segs |-> <<it.cur_seg>> \o rest.segs, is_end |-> rest.is_end]

-----------------------------------------------------------------------------
(* Tensor::complex_overlap: tensor.cpp 145-175 *)

\* the plausible slip for the two-pointer walk: segments that only touch are
\* not stepped over
RECURSIVE complex_overlap_walk_Touching(_, _, _, _)
complex_overlap_walk_Touching(t, pre, in_it, out_it) ==
    IF iter_is_end(t, in_it) \/ iter_is_end(pre, out_it) THEN FALSE
    ELSE LET es_in == get_element_size(t.dtype)
             es_out == get_element_size(pre.dtype)
             input_byte_seg == Segment(in_it.cur_seg.begin * es_in, in_it.cur_seg.end * es_in)
             output_byte_seg == Segment(out_it.cur_seg.begin * es_out, out_it.cur_seg.end * es_out)
         IN IF input_byte_seg.end < output_byte_seg.begin
            THEN complex_overlap_walk_Touching(t, pre, iter_next(t, in_it), out_it)
            ELSE IF output_byte_seg.end < input_byte_seg.begin
            THEN complex_overlap_walk_Touching(t, pre, in_it, iter_next(pre, out_it))
            ELSE TRUE

RECURSIVE complex_overlap_walk(_, _, _, _)
complex_overlap_walk(t, pre, in_it, out_it) ==
    IF iter_is_end(t, in_it) \/ iter_is_end(pre, out_it) THEN FALSE
    ELSE LET es_in == get_element_size(t.dtype)
             es_out == get_element_size(pre.dtype)
             input_byte_seg == Segment(in_it.cur_seg.begin * es_in, in_it.cur_seg.end * es_in)
             output_byte_seg == Segment(out_it.cur_seg.begin * es_out, out_it.cur_seg.end * es_out)
         IN IF input_byte_seg.end <= output_byte_seg.begin
            THEN complex_overlap_walk(t, pre, iter_next(t, in_it), out_it)
            ELSE IF output_byte_seg.end <= input_byte_seg.begin
            THEN complex_overlap_walk(t, pre, in_it, iter_next(pre, out_it))
            ELSE TRUE

complex_overlap(t, pre) ==
    complex_overlap_walk(t, pre, ContiguousMemSegIterator(t), ContiguousMemSegIterator(pre))

-----------------------------------------------------------------------------
(* Tensor::is_overlap: tensor.cpp 54-143.                                  *)
(* A result is [status, complex]: the OverlapStatus returned ("ASSERT"     *)
(* when a debug_assert throws instead of returning) and whether            *)
(* complex_overlap was called (OverlapPathTracker).                        *)

OverlapStatus == {"NO_OVERLAP", "COVERED", "OTHER"}

Result(status, complex) == [status |-> status, complex |-> complex]

\* tensor.cpp 141-142: the O(prod repeats) segment walk
overlap_complex(t, pre) ==
    Result(IF complex_overlap(t, pre) THEN "OTHER" ELSE "NO_OVERLAP", TRUE)

\* tensor.cpp 108-130: the per-axis loop.  Returns need_complex_compare,
\* contains and overlap as they stand when the loop ends (or breaks).
RECURSIVE hyper_rect_scan(_, _, _, _, _, _, _)
hyper_rect_scan(t, pre, input_offset_ndims, output_offset_ndims, i, cont, ovl) ==
    IF i > t.ndims
    THEN [need_complex_compare |-> FALSE, contains |-> cont, overlap |-> ovl]
    ELSE LET input_range_dim_i ==
                 Segment(input_offset_ndims[i], input_offset_ndims[i] + t.repeats[i])
             output_range_dim_i ==
                 Segment(output_offset_ndims[i], output_offset_ndims[i] + pre.repeats[i])
         IN IF i > 1 /\ input_range_dim_i.end * t.strides[i] > t.strides[i - 1]
            THEN [need_complex_compare |-> TRUE, contains |-> cont, overlap |-> ovl]
            ELSE IF i > 1 /\ output_range_dim_i.end * pre.strides[i] > pre.strides[i - 1]
            THEN [need_complex_compare |-> TRUE, contains |-> cont, overlap |-> ovl]
            ELSE IF ~line_segment_intersection(input_range_dim_i, output_range_dim_i)
            THEN hyper_rect_scan(t, pre, input_offset_ndims, output_offset_ndims,
                                 i + 1, cont, FALSE)
            ELSE IF ~contains(input_range_dim_i, output_range_dim_i)
            THEN hyper_rect_scan(t, pre, input_offset_ndims, output_offset_ndims,
                                 i + 1, FALSE, ovl)
            ELSE hyper_rect_scan(t, pre, input_offset_ndims, output_offset_ndims,
                                 i + 1, cont, ovl)

\* a plausible slip: the hyper-rectangle check is taken whatever the strides
overlap_multi_dim_AnyStrides(t, pre) ==
    IF t.dtype = pre.dtype /\ t.ndims = pre.ndims
    THEN LET r == hyper_rect_scan(t, pre, offset_to_ndims(t), offset_to_ndims(pre),
                                  1, TRUE, TRUE)
         IN IF ~r.need_complex_compare
            THEN IF r.contains THEN Result("COVERED", FALSE)
                 ELSE IF r.overlap THEN Result("OTHER", FALSE)
                 ELSE Result("NO_OVERLAP", FALSE)
            ELSE overlap_complex(t, pre)
    ELSE overlap_complex(t, pre)

\* tensor.cpp 97-142: same dtype, ndims and strides take the hyper-rectangle
\* check; everything else, and a non-rectangular access, the complex walk
overlap_multi_dim(t, pre) ==
    IF t.dtype = pre.dtype /\ t.ndims = pre.ndims /\ is_same_strides(t, pre)
    THEN LET r == hyper_rect_scan(t, pre, offset_to_ndims(t), offset_to_ndims(pre),
                                  1, TRUE, TRUE)
         IN IF ~r.need_complex_compare
            THEN IF r.contains THEN Result("COVERED", FALSE)
                 ELSE IF r.overlap THEN Result("OTHER", FALSE)
                 ELSE Result("NO_OVERLAP", FALSE)
            ELSE overlap_complex(t, pre)
    ELSE overlap_complex(t, pre)

\* the plausible slip for the 1-D rule: containment tested the other way round
overlap_1d_Swapped(t, pre, input_byte_seg, output_byte_seg, nd) ==
    IF t.ndims = 1 /\ pre.ndims = 1
    THEN IF ~nd /\ (t.strides[1] # 1 \/ pre.strides[1] # 1) THEN Result("ASSERT", FALSE)
         ELSE IF contains(output_byte_seg, input_byte_seg) THEN Result("COVERED", FALSE)
         ELSE Result("OTHER", FALSE)
    ELSE overlap_multi_dim(t, pre)

\* tensor.cpp 86-95: both 1-D
overlap_1d(t, pre, input_byte_seg, output_byte_seg, nd) ==
    IF t.ndims = 1 /\ pre.ndims = 1
    THEN IF ~nd /\ (t.strides[1] # 1 \/ pre.strides[1] # 1) THEN Result("ASSERT", FALSE)
         ELSE IF contains(input_byte_seg, output_byte_seg) THEN Result("COVERED", FALSE)
         ELSE Result("OTHER", FALSE)
    ELSE overlap_multi_dim(t, pre)

byte_seg(t) ==
    LET es == get_element_size(t.dtype)
        fuzzy == get_fuzzy_seg(t)
    IN Segment(fuzzy.begin * es, fuzzy.end * es)

\* the plausible slip for the segment test: the disjointness test left out
overlap_by_segments_NoDisjointTest(t, pre, nd) ==
    IF pre.overlap_type = "Fuzzy" THEN Result("OTHER", FALSE)
    ELSE overlap_1d(t, pre, byte_seg(t), byte_seg(pre), nd)

\* tensor.cpp 63-84: fuzzy byte segments, then the producer's policy
overlap_by_segments(t, pre, nd) ==
    LET input_byte_seg == byte_seg(t)
        output_byte_seg == byte_seg(pre)
    IN IF ~line_segment_intersection(input_byte_seg, output_byte_seg)
       THEN Result("NO_OVERLAP", FALSE)
       ELSE IF pre.overlap_type = "Fuzzy" THEN Result("OTHER", FALSE)
       ELSE overlap_1d(t, pre, input_byte_seg, output_byte_seg, nd)

\* the plausible slip for the version rule: the version test left out
is_overlap_NoVersionRule(t, pre, nd) ==
    IF ~is_same_memref(t, pre) THEN Result("NO_OVERLAP", FALSE)
    ELSE overlap_by_segments(t, pre, nd)

\* tensor.cpp 54-143.  nd: built with NDEBUG
is_overlap(t, pre, nd) ==
    IF ~is_same_memref(t, pre) THEN Result("NO_OVERLAP", FALSE)
    ELSE IF ~nd /\ ~(t.version >= pre.version) THEN Result("ASSERT", FALSE)
    ELSE IF t.version > pre.version THEN Result("OTHER", FALSE)
    ELSE overlap_by_segments(t, pre, nd)

-----------------------------------------------------------------------------
(* The bucket hash of the TensorMap: pto_tensormap.cpp *)

NumBuckets == 2 ^ BucketBits

RECURSIVE BitXor(_, _)
BitXor(a, b) ==
    IF a = 0 THEN b
    ELSE IF b = 0 THEN a
    ELSE (((a % 2) + (b % 2)) % 2) + 2 * BitXor(a \div 2, b \div 2)

RECURSIVE BitAnd(_, _)
BitAnd(a, b) ==
    IF a = 0 \/ b = 0 THEN 0
    ELSE ((a % 2) * (b % 2)) + 2 * BitAnd(a \div 2, b \div 2)

RECURSIVE ShiftRight(_, _)
ShiftRight(k, n) == IF n = 0 THEN k ELSE ShiftRight(k \div 2, n - 1)

\* the slip the comment of pto2_tensormap_hash warns against: the offset hashed too
pto2_tensormap_hash_WithOffset(num_buckets, tensor) ==
    LET key0 == tensor.addr + tensor.start_offset
        key1 == BitXor(key0, ShiftRight(key0, 16))
        key2 == BitXor(key1, ShiftRight(key1, 32))
    IN BitAnd(key2, num_buckets - 1)

\* pto2_tensormap_hash: the bucket of a tensor, from its base address alone
pto2_tensormap_hash(num_buckets, tensor) ==
    LET key0 == tensor.addr
        key1 == BitXor(key0, ShiftRight(key0, 16))
        key2 == BitXor(key1, ShiftRight(key1, 32))
    IN BitAnd(key2, num_buckets - 1)

-----------------------------------------------------------------------------
(* Specification SpecOv: is_overlap applied to every pair of drawn          *)
(* descriptors, in both directions, under both builds.                     *)

\* 1-D contiguous accesses, <<start_offset, repeats[0]>>
OneDShapes == {<<0, 256>>, <<64, 128>>, <<0, 4>>, <<2, 4>>, <<4, 2>>}

\* 2-D accesses, <<start_offset, strides, repeats>>
TwoDShapes ==
    {<<st, <<10, 1>>, <<r0, r1>>>> : st \in {0, 6, 15}, r0 \in {2, 3}, r1 \in {3, 6}}
    \cup {<<0, <<8, 1>>, <<2, 3>>>>}

\* 3-D accesses; the one starting at 3 runs past its middle stride
ThreeDShapes == {<<st, <<20, 5, 1>>, <<2, 2, 3>>>> : st \in {0, 3, 6}}

OvShapes ==
    {<<sh[1], <<1>>, <<sh[2]>>>> : sh \in OneDShapes} \cup TwoDShapes \cup ThreeDShapes

\* buffers: <<addr, size in bytes>>
OvBufferA == <<4096, 1024>>
OvBufferB == <<8192, 1024>>

\* the descriptors the Tensor constructor accepts (tensor_orch.cpp 22-42:
\* the normalized copy is valid); all are drawn already normalized
OvDescs ==
    {t \in {Tensor(OvBufferA[1], OvBufferA[2], sh[1], sh[2], sh[3], dt, v, pol) :
                sh \in OvShapes, dt \in DataTypes, v \in 0..MaxVersion,
                pol \in {"Accurate", "Fuzzy"}}
           \cup {Tensor(OvBufferB[1], OvBufferB[2], sh[1], <<1>>, <<sh[2]>>, "FLOAT32", v, "Accurate") :
                sh \in OneDShapes, v \in 0..MaxVersion} :
        t.ndims <= RUNTIME_MAX_TENSOR_DIMS /\ is_valid_tensor(t)}

\* the runtime variables of a run that has no orchestration program
InitRtOff ==
    /\ window_bits = WindowBits
    /\ prog = "none" /\ ip = 0
    /\ slot_status = <<>> /\ successors = <<>>
    /\ heap = <<>> /\ bufs = <<>> /\ cores = <<>>
    /\ orchestrator_done = 0 /\ hist = <<>>

NoResult == Result("NONE", FALSE)

InitOv ==
    /\ ovR \in OvDescs
    /\ ovP \in OvDescs
    /\ ndebug \in BOOLEAN
    /\ ovFwd = NoResult
    /\ ovRev = NoResult
    /\ ovCx = FALSE
    /\ ovSegs = NoSegments
    /\ ovBkt = <<-1, -1>>
    /\ ovPc = "input"
    /\ tn = <<>>
    /\ tm = <<>> /\ tensormap_last_cleanup = 0 /\ last_task_alive = 0
    /\ submitted_count = 0 /\ pc = "off" /\ cur = <<>> /\ par_idx = 0
    /\ entry_offset = -1 /\ tasks = <<>> /\ lk = <<>>
    /\ InitRtOff

\* reader.is_overlap(producer), and the call with the roles exchanged
OvCheck ==
    /\ ovPc = "input"
    /\ ovFwd' = is_overlap(ovR, ovP, ndebug)
    /\ ovRev' = is_overlap(ovP, ovR, ndebug)
    /\ ovCx' = complex_overlap(ovR, ovP)
    /\ ovSegs' = iter_segments(ovR, ContiguousMemSegIterator(ovR), IterFuel(ovR))
    /\ ovBkt' = <<pto2_tensormap_hash(NumBuckets, ovR), pto2_tensormap_hash(NumBuckets, ovP)>>
    /\ ovPc' = "done"
    /\ UNCHANGED <<ovR, ovP, tn, ndebug, tmVars, rtVars>>

NextOv == OvCheck

SpecOv == InitOv /\ [][NextOv]_vars

-----------------------------------------------------------------------------
(* What a descriptor reaches, computed by enumeration (independent of the  *)
(* segment arithmetic of is_overlap)                                       *)

RECURSIVE reach_offsets(_, _)
reach_offsets(t, i) ==
    IF i = 0 THEN {t.start_offset}
    ELSE {o + k * t.strides[i] : o \in reach_offsets(t, i - 1), k \in 0..(t.repeats[i] - 1)}

ElemOffsets(t) == reach_offsets(t, t.ndims)

ReachBytes(t) ==
    LET es == get_element_size(t.dtype)
    IN UNION {(o * es)..(o * es + es - 1) : o \in ElemOffsets(t)}

\* the last element offset the access reaches: every index at its largest value
\* (strides are not negative)
RECURSIVE last_offset(_, _)
last_offset(t, i) ==
    IF i = 0 THEN t.start_offset
    ELSE last_offset(t, i - 1) + (t.repeats[i] - 1) * t.strides[i]

\* the smallest byte interval enclosing the access, first and last byte
RangeBytes(t) ==
    LET es == get_element_size(t.dtype)
    IN [first |-> t.start_offset * es, last |-> last_offset(t, t.ndims) * es + es - 1]

OneDCase ==
    /\ ovR.ndims = 1 /\ ovP.ndims = 1
    /\ ovR.addr = ovP.addr
    /\ ovR.version = ovP.version
    /\ ovP.overlap_type = "Accurate"

IsReadOf(t, start, n) ==
    t.ndims = 1 /\ t.start_offset = start /\ t.repeats[1] = n

\* the read B[64:192] after the write B[0:256]
ScenarioS3 ==
    /\ OneDCase /\ ovR.dtype = ovP.dtype /\ ovR.overlap_type = "Accurate"
    /\ IsReadOf(ovR, 64, 128) /\ IsReadOf(ovP, 0, 256)

IndexRange(t, i) ==
    LET off == offset_to_ndims(t) IN Segment(off[i], off[i] + t.repeats[i])

\* an axis-aligned hyper-rectangle: no inner index range runs past the outer stride
IsHyperRect(t) ==
    \A i \in 2..t.ndims : IndexRange(t, i).end * t.strides[i] <= t.strides[i - 1]

SameLayout ==
    /\ ovR.addr = ovP.addr /\ ovR.version = ovP.version
    /\ ovR.dtype = ovP.dtype /\ ovR.ndims = ovP.ndims
    /\ ovR.strides = ovP.strides

\* C7: with the same base, version, dtype, ndims and strides and both accesses
\* axis-aligned hyper-rectangles (producer Accurate), index ranges disjoint on some
\* axis give NO_OVERLAP, without a call of complex_overlap.
C7_DisjointAxisNoOverlap ==
    (/\ ovPc = "done" /\ SameLayout
     /\ ovP.overlap_type = "Accurate"
     /\ IsHyperRect(ovR) /\ IsHyperRect(ovP)
     /\ \E i \in 1..ovR.ndims :
           ~line_segment_intersection(IndexRange(ovR, i), IndexRange(ovP, i)))
    => (ovFwd.status = "NO_OVERLAP" /\ ~ovFwd.complex)

\* C8: with equal versions (and both policies Accurate), R.is_overlap(P) is
\* NO_OVERLAP iff P.is_overlap(R) is.
C8_NoOverlapSymmetric ==
    (/\ ovPc = "done" /\ ovR.version = ovP.version
     /\ ovR.overlap_type = "Accurate" /\ ovP.overlap_type = "Accurate")
    => (ovFwd.status = "NO_OVERLAP" <=> ovRev.status = "NO_OVERLAP")

RangesDisjoint ==
    \/ RangeBytes(ovR).last < RangeBytes(ovP).first
    \/ RangeBytes(ovP).last < RangeBytes(ovR).first

\* C9 as stated: whenever is_overlap returns for a reader and a producer with
\* different base addresses or disjoint byte ranges, it returns NO_OVERLAP.
C9_DisjointNoOverlap ==
    (/\ ovPc = "done" /\ ovFwd.status \in OverlapStatus
     /\ (ovR.addr # ovP.addr \/ RangesDisjoint))
    => ovFwd.status = "NO_OVERLAP"

\* C9 amended: is_overlap returns NO_OVERLAP whenever the base addresses differ,
\* or the byte ranges are disjoint and the reader's version equals the
\* producer's, or is older in a build without debug_assert (the version rule is
\* applied before the byte ranges are looked at).
C9_DisjointNoOverlapSameVersion ==
    (/\ ovPc = "done"
     /\ \/ ovR.addr # ovP.addr
        \/ /\ RangesDisjoint
           /\ (ovR.version = ovP.version \/ (ndebug /\ ovR.version < ovP.version)))
    => ovFwd.status = "NO_OVERLAP"

\* disjoint byte ranges of one buffer at equal version
C9_Witness ==
    /\ ovPc = "done" /\ ovR.addr = ovP.addr /\ ovR.version = ovP.version
    /\ RangesDisjoint /\ ovFwd.status = "NO_OVERLAP"

\* C10: same base and reader.version > producer.version give OTHER, never COVERED.
C10_NewerVersionIsOther ==
    (ovPc = "done" /\ ovR.addr = ovP.addr /\ ovR.version > ovP.version)
    => ovFwd.status = "OTHER"

\* a newer reader exactly on top of an older producer
C10_Witness ==
    /\ ovPc = "done" /\ ovR.version > ovP.version
    /\ ovR.addr = ovP.addr /\ ovR.start_offset = ovP.start_offset
    /\ ovR.strides = ovP.strides /\ ovR.repeats = ovP.repeats /\ ovR.dtype = ovP.dtype
    /\ ovP.overlap_type = "Accurate"
    /\ ovFwd.status = "OTHER"

\* C11 as stated: a reader older than a producer on the same base ends
\* is_overlap in a fatal assertion; no overlap status is returned.
C11_OlderReaderAsserts ==
    (ovPc = "done" /\ ovR.addr = ovP.addr /\ ovR.version < ovP.version)
    => ovFwd.status = "ASSERT"

\* the reader's byte segment contains the producer's, from first and last bytes
ReaderRangeContainsProducer ==
    /\ RangeBytes(ovR).first <= RangeBytes(ovP).first
    /\ RangeBytes(ovP).last <= RangeBytes(ovR).last

\* C12 (1-D rule): both 1-D contiguous on one base with equal version, producer
\* Accurate and intersecting byte segments: COVERED iff the reader's byte
\* segment contains the producer's, OTHER otherwise, never NO_OVERLAP.
C12_OneDRule ==
    (ovPc = "done" /\ OneDCase /\ ~RangesDisjoint)
    => /\ ovFwd.status \in {"COVERED", "OTHER"}
       /\ ovFwd.status = "COVERED" <=> ReaderRangeContainsProducer
       /\ ~ovFwd.complex

\* a reader on exactly the producer's bytes, and so COVERED
C12_Witness ==
    /\ ovPc = "done" /\ OneDCase /\ ~RangesDisjoint
    /\ RangeBytes(ovR) = RangeBytes(ovP)
    /\ ovFwd.status = "COVERED"

\* scenario S5: strides [10,1], repeats [3,6] start 0 against repeats [2,6] start 15
ScenarioS5 ==
    /\ SameLayout /\ ovP.overlap_type = "Accurate"
    /\ ovR.strides = <<10, 1>> /\ ovR.repeats = <<3, 6>> /\ ovR.start_offset = 0
    /\ ovP.repeats = <<2, 6>> /\ ovP.start_offset = 15

-----------------------------------------------------------------------------
(* TensorMap: pto_tensormap.cpp *)

PTO2_TASK_WINDOW_SIZE == 2 ^ window_bits

\* the zeroed Tensor of a calloc'ed pool entry
NoTensor == Tensor(0, 0, 0, <<>>, <<>>, "FLOAT32", 0, "Accurate")

\* pto2_tensormap_init: the TensorMap after initialisation
pto2_tensormap_init(num_buckets, pool_size) ==
    [num_buckets |-> num_buckets,
     buckets |-> [b \in 0..(num_buckets - 1) |-> -1],
     pool_size |-> pool_size,
     pool_head |-> 0,
     entry_pool |-> [i \in 0..(pool_size - 1) |->
                        [tensor |-> NoTensor, producer_task_id |-> -1,
                         with_alloc |-> FALSE, in_bucket |-> FALSE,
                         next_in_bucket |-> -1, prev_in_bucket |-> -1,
                         next_in_task |-> -1, prev_in_task |-> -1]],
     task_entry_head |-> [s \in 0..(PTO2_TASK_WINDOW_SIZE - 1) |-> -1],
     last_task_alive |-> 0]

\* pto_tensormap.h: an entry is valid while its producer has not retired
pto2_tensormap_entry_valid(m, entry) == entry.producer_task_id >= m.last_task_alive

\* a plausible slip: the task slot is stored where the task id is meant
pto2_tensormap_sync_validity_Slot(m, new_last_task_alive) ==
    [m EXCEPT !.last_task_alive = BitAnd(new_last_task_alive, PTO2_TASK_WINDOW_SIZE - 1)]

pto2_tensormap_sync_validity(m, new_last_task_alive) ==
    [m EXCEPT !.last_task_alive = new_last_task_alive]

pto2_tensormap_remove_from_bucket(m, offset) ==
    LET entry == m.entry_pool[offset]
    IN IF ~entry.in_bucket THEN m
       ELSE LET m1 == IF entry.prev_in_bucket = -1
                      THEN [m EXCEPT !.buckets[pto2_tensormap_hash(m.num_buckets, entry.tensor)] =
                                         entry.next_in_bucket]
                      ELSE [m EXCEPT !.entry_pool[entry.prev_in_bucket].next_in_bucket =
                                         entry.next_in_bucket]
                m2 == IF entry.next_in_bucket >= 0
                      THEN [m1 EXCEPT !.entry_pool[entry.next_in_bucket].prev_in_bucket =
                                          entry.prev_in_bucket]
                      ELSE m1
            IN [m2 EXCEPT !.entry_pool[offset].in_bucket = FALSE,
                          !.entry_pool[offset].next_in_bucket = -1,
                          !.entry_pool[offset].prev_in_bucket = -1]

\* steps after which a walk along next_in_task that has not ended never ends:
\* every entry is unlinked at most once, and between two unlinkings a walk that
\* ends visits no entry twice
CleanupFuel == (PoolSize + 1) * (PoolSize + 1)

\* pto2_tensormap_cleanup_retired, the while loop over one task's entry list.
\* hang: the loop follows a cycle of next_in_task links and never ends.
RECURSIVE cleanup_task_chain(_, _, _, _)
cleanup_task_chain(m, task_id, offset, fuel) ==
    IF offset < 0 THEN [tm |-> m, hang |-> FALSE]
    ELSE IF fuel = 0 THEN [tm |-> m, hang |-> TRUE]
    ELSE LET entry == m.entry_pool[offset]
             next == entry.next_in_task
             m1 == IF entry.producer_task_id = task_id
                   THEN [pto2_tensormap_remove_from_bucket(m, offset)
                            EXCEPT !.entry_pool[offset].next_in_task = -1,
                                   !.entry_pool[offset].prev_in_task = -1]
                   ELSE m
         IN cleanup_task_chain(m1, task_id, next, fuel - 1)

\* pto2_tensormap_cleanup_retired: the for loop, task_id running from
\* old_last_task_alive up to new_last_task_alive
RECURSIVE pto2_tensormap_cleanup_retired(_, _, _)
pto2_tensormap_cleanup_retired(m, old_last_task_alive, new_last_task_alive) ==
    IF old_last_task_alive >= new_last_task_alive THEN [tm |-> m, hang |-> FALSE]
    ELSE LET task_id == old_last_task_alive
             task_slot == BitAnd(task_id, PTO2_TASK_WINDOW_SIZE - 1)
             r == cleanup_task_chain(m, task_id, m.task_entry_head[task_slot], CleanupFuel)
         IN IF r.hang THEN r
            ELSE pto2_tensormap_cleanup_retired(
                     [r.tm EXCEPT !.task_entry_head[task_slot] = -1],
                     task_id + 1, new_last_task_alive)

\* pto2_orchestrator_sync_tensormap: new_last_task_alive is the value the
\* acquire load reads from the header
pto2_orchestrator_sync_tensormap(m, last_cleanup, new_last_task_alive) ==
    LET m1 == pto2_tensormap_sync_validity(m, new_last_task_alive)
    IN IF new_last_task_alive - last_cleanup >= CleanupInterval
       THEN LET r == pto2_tensormap_cleanup_retired(m1, last_cleanup, new_last_task_alive)
            IN [tm |-> r.tm, hang |-> r.hang,
                tensormap_last_cleanup |-> IF r.hang THEN last_cleanup ELSE new_last_task_alive]
       ELSE [tm |-> m1, hang |-> FALSE, tensormap_last_cleanup |-> last_cleanup]

-----------------------------------------------------------------------------
(* pto2_tensormap_lookup *)

\* lookup line 266: *prev_ptr = -1, prev_ptr being &buckets[bucket] (prev = -1)
\* or &entry_pool[prev].next_in_bucket
set_prev_ptr(m, bucket, prev, value) ==
    IF prev = -1 THEN [m EXCEPT !.buckets[bucket] = value]
    ELSE [m EXCEPT !.entry_pool[prev].next_in_bucket = value]

\* a plausible slip: the links of the tail are reset and its flags are left set
RECURSIVE unlink_tail_LinksOnly(_, _)
unlink_tail_LinksOnly(m, offset) ==
    IF offset < 0 THEN m
    ELSE unlink_tail_LinksOnly([m EXCEPT !.entry_pool[offset].next_in_bucket = -1,
                                         !.entry_pool[offset].prev_in_bucket = -1],
                               m.entry_pool[offset].next_in_bucket)

\* lookup lines 269-276: mark the entries from offset on as not in a bucket
RECURSIVE unlink_tail(_, _)
unlink_tail(m, offset) ==
    IF offset < 0 THEN m
    ELSE unlink_tail([m EXCEPT !.entry_pool[offset].in_bucket = FALSE,
                               !.entry_pool[offset].next_in_bucket = -1,
                               !.entry_pool[offset].prev_in_bucket = -1],
                     m.entry_pool[offset].next_in_bucket)

\* a plausible slip: the stale entry is skipped and the chain left as it is
lookup_truncate_KeepChain(m, bucket, prev, offset) == m

\* a plausible slip: the chain is cut at the bucket head, not at the stale entry
lookup_truncate_FromHead(m, bucket, prev, offset) ==
    unlink_tail(set_prev_ptr(m, bucket, -1, -1), m.buckets[bucket])

\* lookup lines 263-276: the chain is truncated at the stale entry at offset
lookup_truncate(m, bucket, prev, offset) ==
    unlink_tail(set_prev_ptr(m, bucket, prev, -1), offset)

\* the while loop of pto2_tensormap_lookup.  prev is the entry whose
\* next_in_bucket prev_ptr points at (-1: the bucket head).  The result holds the
\* map, the (entry offset, status) pairs collected, and whether is_overlap threw.
RECURSIVE lookup_walk(_, _, _, _, _, _, _)
lookup_walk(m, tensor, nd, bucket, prev, offset, task_ids) ==
    IF offset < 0 THEN [tm |-> m, task_ids |-> task_ids, assert |-> FALSE]
    ELSE LET entry == m.entry_pool[offset]
         IN IF ~pto2_tensormap_entry_valid(m, entry)
            THEN [tm |-> lookup_truncate(m, bucket, prev, offset),
                  task_ids |-> task_ids, assert |-> FALSE]
            ELSE LET overlap_status == is_overlap(tensor, entry.tensor, nd).status
                 IN IF overlap_status = "ASSERT"
                    THEN [tm |-> m, task_ids |-> task_ids, assert |-> TRUE]
                    ELSE lookup_walk(m, tensor, nd, bucket, offset, entry.next_in_bucket,
                             IF overlap_status # "NO_OVERLAP"
                             THEN Append(task_ids, <<offset, overlap_status>>)
                             ELSE task_ids)

pto2_tensormap_lookup(m, tensor, nd) ==
    LET bucket == pto2_tensormap_hash(m.num_buckets, tensor)
    IN lookup_walk(m, tensor, nd, bucket, -1, m.buckets[bucket], <<>>)

-----------------------------------------------------------------------------
(* pto2_tensormap_insert *)

\* insert lines 303-307: take the slot at pool_head and advance pool_head
insert_alloc(m) ==
    [tm |-> [m EXCEPT !.pool_head = (m.pool_head + 1) % m.pool_size],
     entry_offset |-> m.pool_head]

\* a plausible slip: the slot is written whether it is linked or not
insert_must_wait_Never(m, offset) == FALSE

\* insert line 310: the slot taken is still in a bucket
insert_must_wait(m, offset) == m.entry_pool[offset].in_bucket

\* a plausible slip: the reused entry keeps the producer it had
insert_init_entry_KeepProducer(m, offset, tensor, producer_task_id, with_alloc) ==
    [m EXCEPT !.entry_pool[offset].tensor = tensor,
              !.entry_pool[offset].with_alloc = with_alloc]

\* insert lines 315-318
insert_init_entry(m, offset, tensor, producer_task_id, with_alloc) ==
    [m EXCEPT !.entry_pool[offset].tensor = tensor,
              !.entry_pool[offset].producer_task_id = producer_task_id,
              !.entry_pool[offset].with_alloc = with_alloc]

\* a plausible slip: the old head is not told about its new predecessor
insert_bucket_link_NoBackLink(m, offset, tensor) ==
    LET bucket == pto2_tensormap_hash(m.num_buckets, tensor)
        old_head == m.buckets[bucket]
    IN [m EXCEPT !.entry_pool[offset].next_in_bucket = old_head,
                 !.entry_pool[offset].prev_in_bucket = -1,
                 !.buckets[bucket] = offset,
                 !.entry_pool[offset].in_bucket = TRUE]

\* a plausible slip: the new entry is linked behind the head of the chain
insert_bucket_link_BehindHead(m, offset, tensor) ==
    LET bucket == pto2_tensormap_hash(m.num_buckets, tensor)
        head == m.buckets[bucket]
    IN IF head < 0
       THEN [m EXCEPT !.entry_pool[offset].next_in_bucket = -1,
                      !.entry_pool[offset].prev_in_bucket = -1,
                      !.buckets[bucket] = offset,
                      !.entry_pool[offset].in_bucket = TRUE]
       ELSE LET nxt == m.entry_pool[head].next_in_bucket
                m1 == [m EXCEPT !.entry_pool[offset].next_in_bucket = nxt,
                                !.entry_pool[offset].prev_in_bucket = head,
                                !.entry_pool[head].next_in_bucket = offset,
                                !.entry_pool[offset].in_bucket = TRUE]
            IN IF nxt >= 0 THEN [m1 EXCEPT !.entry_pool[nxt].prev_in_bucket = offset]
               ELSE m1

\* insert lines 320-329: link at the head of the hash bucket
insert_bucket_link(m, offset, tensor) ==
    LET bucket == pto2_tensormap_hash(m.num_buckets, tensor)
        old_head == m.buckets[bucket]
        m1 == [m EXCEPT !.entry_pool[offset].next_in_bucket = old_head,
                        !.entry_pool[offset].prev_in_bucket = -1]
        m2 == IF old_head >= 0
              THEN [m1 EXCEPT !.entry_pool[old_head].prev_in_bucket = offset]
              ELSE m1
    IN [m2 EXCEPT !.buckets[bucket] = offset,
                  !.entry_pool[offset].in_bucket = TRUE]

\* a plausible slip: the slot is taken from the next task id
insert_task_link_NextSlot(m, offset, producer_task_id) ==
    LET task_slot == BitAnd(producer_task_id + 1, PTO2_TASK_WINDOW_SIZE - 1)
        old_head == m.task_entry_head[task_slot]
        m1 == [m EXCEPT !.entry_pool[offset].next_in_task = old_head,
                        !.entry_pool[offset].prev_in_task = -1]
        m2 == IF old_head >= 0
              THEN [m1 EXCEPT !.entry_pool[old_head].prev_in_task = offset]
              ELSE m1
    IN [m2 EXCEPT !.task_entry_head[task_slot] = offset]

\* insert lines 331-339: link at the head of the task's entry list
insert_task_link(m, offset, producer_task_id) ==
    LET task_slot == BitAnd(producer_task_id, PTO2_TASK_WINDOW_SIZE - 1)
        old_head == m.task_entry_head[task_slot]
        m1 == [m EXCEPT !.entry_pool[offset].next_in_task = old_head,
                        !.entry_pool[offset].prev_in_task = -1]
        m2 == IF old_head >= 0
              THEN [m1 EXCEPT !.entry_pool[old_head].prev_in_task = offset]
              ELSE m1
    IN [m2 EXCEPT !.task_entry_head[task_slot] = offset]

\* insert lines 315-339, run once the wait loop has ended
insert_link(m, offset, tensor, producer_task_id, with_alloc) ==
    insert_task_link(
        insert_bucket_link(
            insert_init_entry(m, offset, tensor, producer_task_id, with_alloc),
            offset, tensor),
        offset, producer_task_id)

-----------------------------------------------------------------------------
(* The orchestrator: submit_task (pto_orchestrator.cpp), driving the       *)
(* TensorMap, and the executor seen through last_task_alive.               *)

\* 1-D contiguous float32 accesses of three buffers; with two buckets the
\* buffers at 4096 and 8192 share bucket 0 and the buffer at 65536 has bucket 1
TmTensor(addr, start, n, version) ==
    Tensor(addr, 64, start, <<1>>, <<n>>, "FLOAT32", version, "Accurate")

TA0 == TmTensor(4096, 0, 4, 0)
TA1 == TmTensor(4096, 1, 4, 0)
TA2 == TmTensor(4096, 4, 4, 0)
TA0v == TmTensor(4096, 0, 4, MaxVersion)
TB == TmTensor(8192, 0, 4, 0)
TC == TmTensor(65536, 0, 4, 0)

\* PTOParam: pto_types.h
Param(type, tensor) == [type |-> type, tensor |-> tensor]
make_scalar_param == Param("SCALAR", NoTensor)
make_input_param(tensor) == Param("INPUT", tensor)
make_output_param(tensor) == Param("OUTPUT", tensor)
make_inout_param(tensor) == Param("INOUT", tensor)

\* the params[] arrays the orchestration program submits
TaskMenu ==
    {<<make_output_param(TA0), make_output_param(TB)>>,
     <<make_input_param(TA1), make_scalar_param, make_output_param(TC)>>,
     <<make_inout_param(TA2)>>,
     <<make_inout_param(TA0v)>>}

\* with_alloc: the indices of the parameters submit_task allocated from the heap
NoCur == [task_id |-> -1, params |-> <<>>, preds |-> {}, with_alloc |-> {}]
NoTask == [task_id |-> -1, params |-> <<>>, preds |-> {}, pending_preds |-> 0, alive |-> 0]
NoLookup == [fresh |-> FALSE, bucket |-> -1, unlinked |-> {}]

\* the state after pto2_tensormap_init(tm, num_buckets, pool_size) with a pool
\* of the size given
InitTmPool(pool_size) ==
    /\ tm = pto2_tensormap_init(NumBuckets, pool_size)
    /\ tensormap_last_cleanup = 0
    /\ last_task_alive = 0
    /\ submitted_count = 0
    /\ pc = "idle"
    /\ cur = NoCur
    /\ par_idx = 0
    /\ entry_offset = -1
    /\ tasks = [s \in 0..(PTO2_TASK_WINDOW_SIZE - 1) |-> NoTask]
    /\ lk = NoLookup

InitTm == InitTmPool(PoolSize)

InitOvIdle ==
    /\ ovR = NoTensor /\ ovP = NoTensor
    /\ ovFwd = NoResult /\ ovRev = NoResult /\ ovCx = FALSE /\ ovSegs = NoSegments
    /\ ovBkt = <<-1, -1>>
    /\ ovPc = "off"

Init == InitRtOff /\ InitTm /\ InitOvIdle /\ tn = <<>> /\ ndebug \in BOOLEAN

\* submit_task step 1: task_id = submitted_count, not yet published
SubmitTask(params) ==
    /\ pc = "idle"
    /\ submitted_count < MaxTasks
    /\ cur' = [task_id |-> submitted_count, params |-> params, preds |-> {},
               with_alloc |-> {}]
    /\ pc' = "admit"
    /\ UNCHANGED <<tm, tensormap_last_cleanup, last_task_alive, submitted_count,
                   par_idx, entry_offset, tasks, lk>>
    /\ UNCHANGED <<ovVars, tn, ndebug, rtVars>>

\* one pass of a backpressure spin: pto2_orchestrator_sync_tensormap, which
\* never returns when cleanup_retired follows a cycle
SyncTensormap(stay) ==
    LET r == pto2_orchestrator_sync_tensormap(tm, tensormap_last_cleanup, last_task_alive)
    IN /\ tm' = r.tm
       /\ tensormap_last_cleanup' = r.tensormap_last_cleanup
       /\ pc' = IF r.hang THEN "hang" ELSE stay
       /\ lk' = NoLookup

\* the task window test: the task is admitted while
\* task_id - last_task_alive < PTO2_TASK_WINDOW_SIZE, else the orchestrator
\* synchronises the TensorMap and tries again
AdmitTask ==
    /\ pc = "admit"
    /\ IF cur.task_id - last_task_alive >= PTO2_TASK_WINDOW_SIZE
       THEN /\ pc' = "admit_sync"
            /\ UNCHANGED par_idx
       ELSE /\ pc' = "lookup"
            /\ par_idx' = 1
    /\ UNCHANGED <<tm, tensormap_last_cleanup, lk>>
    /\ UNCHANGED <<last_task_alive, submitted_count, cur, entry_offset, tasks>>
    /\ UNCHANGED <<ovVars, tn, ndebug, rtVars>>

\* one pass of the window spin: pto2_orchestrator_sync_tensormap makes its own
\* acquire load of last_task_alive, which the executor may have advanced since
\* the window test read it
AdmitSync ==
    /\ pc = "admit_sync"
    /\ SyncTensormap("admit")
    /\ UNCHANGED <<last_task_alive, submitted_count, cur, par_idx, entry_offset, tasks>>
    /\ UNCHANGED <<ovVars, tn, ndebug, rtVars>>

\* submit_task step 3, one parameter: SCALAR is skipped, every other
\* parameter is looked up and the producers found join the predecessor set
LookupParam ==
    /\ pc = "lookup"
    /\ par_idx <= Len(cur.params)
    /\ LET p == cur.params[par_idx]
       IN IF p.type = "SCALAR"
          THEN /\ par_idx' = par_idx + 1
               /\ UNCHANGED <<tm, cur, pc, lk>>
          ELSE LET r == pto2_tensormap_lookup(tm, p.tensor, ndebug)
               IN IF r.assert
                  THEN /\ pc' = "fault"
                       /\ UNCHANGED <<tm, cur, par_idx, lk>>
                  ELSE /\ tm' = r.tm
                       /\ cur' = [cur EXCEPT !.preds = @ \cup
                                    {tm.entry_pool[r.task_ids[k][1]].producer_task_id :
                                         k \in 1..Len(r.task_ids)}]
                       /\ par_idx' = par_idx + 1
                       /\ lk' = [fresh |-> TRUE,
                                 bucket |-> pto2_tensormap_hash(tm.num_buckets, p.tensor),
                                 unlinked |-> {tm.entry_pool[i].producer_task_id :
                                                 i \in {j \in 0..(tm.pool_size - 1) :
                                                          /\ tm.entry_pool[j].in_bucket
                                                          /\ ~r.tm.entry_pool[j].in_bucket}}]
                       /\ UNCHANGED pc
    /\ UNCHANGED <<tensormap_last_cleanup, last_task_alive, submitted_count,
                   entry_offset, tasks>>
    /\ UNCHANGED <<ovVars, tn, ndebug, rtVars>>

\* submit_task step 4: the slot is written with pending_preds = |predecessors|.
\* alive is history: last_task_alive when the predecessors had been collected.
InitTaskSlot ==
    /\ pc = "lookup"
    /\ par_idx > Len(cur.params)
    /\ tasks' = [tasks EXCEPT ![BitAnd(cur.task_id, PTO2_TASK_WINDOW_SIZE - 1)] =
                    [task_id |-> cur.task_id, params |-> cur.params, preds |-> cur.preds,
                     pending_preds |-> Cardinality(cur.preds),
                     alive |-> last_task_alive]]
    /\ pc' = "insert"
    /\ par_idx' = 1
    /\ UNCHANGED <<tm, tensormap_last_cleanup, last_task_alive, submitted_count,
                   cur, entry_offset, lk>>
    /\ UNCHANGED <<ovVars, tn, ndebug, rtVars>>

IsProduced(p) == p.type \in {"INOUT", "OUTPUT"}

\* the parameters at or after par_idx that submit_task step 6 inserts
ToInsert == {k \in par_idx..Len(cur.params) : IsProduced(cur.params[k])}

NextToInsert == CHOOSE k \in ToInsert : \A j \in ToInsert : k <= j

\* pto2_tensormap_insert, up to the wait loop
InsertAlloc ==
    /\ pc = "insert"
    /\ ToInsert # {}
    /\ LET r == insert_alloc(tm)
       IN /\ tm' = r.tm
          /\ entry_offset' = r.entry_offset
    /\ par_idx' = NextToInsert
    /\ pc' = "insert_wait"
    /\ lk' = NoLookup
    /\ UNCHANGED <<tensormap_last_cleanup, last_task_alive, submitted_count, cur, tasks>>
    /\ UNCHANGED <<ovVars, tn, ndebug, rtVars>>

\* one pass of the wait loop of pto2_tensormap_insert
InsertSpin ==
    /\ pc = "insert_wait"
    /\ insert_must_wait(tm, entry_offset)
    /\ SyncTensormap("insert_wait")
    /\ UNCHANGED <<last_task_alive, submitted_count, cur, par_idx, entry_offset, tasks>>
    /\ UNCHANGED <<ovVars, tn, ndebug, rtVars>>

\* pto2_tensormap_insert after the wait loop
InsertLink ==
    /\ pc = "insert_wait"
    /\ ~insert_must_wait(tm, entry_offset)
    /\ tm' = insert_link(tm, entry_offset, cur.params[par_idx].tensor, cur.task_id,
                       par_idx \in cur.with_alloc)
    /\ par_idx' = par_idx + 1
    /\ pc' = "insert"
    /\ lk' = NoLookup
    /\ UNCHANGED <<tensormap_last_cleanup, last_task_alive, submitted_count, cur,
                   entry_offset, tasks>>
    /\ UNCHANGED <<ovVars, tn, ndebug, rtVars>>

\* submit_task step 7: the release increment of submitted_count
Publish ==
    /\ pc = "insert"
    /\ ToInsert = {}
    /\ submitted_count' = submitted_count + 1
    /\ pc' = "idle"
    /\ cur' = NoCur
    /\ par_idx' = 0
    /\ UNCHANGED <<tm, tensormap_last_cleanup, last_task_alive, entry_offset, tasks, lk>>
    /\ UNCHANGED <<ovVars, tn, ndebug, rtVars>>

\* the executor retires the oldest published task (release store)
RetireTask ==
    /\ last_task_alive < submitted_count
    /\ last_task_alive' = last_task_alive + 1
    /\ UNCHANGED <<tm, tensormap_last_cleanup, submitted_count, pc, cur, par_idx,
                   entry_offset, tasks, lk>>
    /\ UNCHANGED <<ovVars, tn, ndebug, rtVars>>

Next ==
    \/ \E params \in TaskMenu : SubmitTask(params)
    \/ AdmitTask
    \/ AdmitSync
    \/ LookupParam
    \/ InitTaskSlot
    \/ InsertAlloc
    \/ InsertSpin
    \/ InsertLink
    \/ Publish
    \/ RetireTask

Spec == Init /\ [][Next]_vars

-----------------------------------------------------------------------------
(* Claims about the TensorMap and the dependencies submit_task derives *)

Pool == 0..(tm.pool_size - 1)

\* the producer ids along a bucket chain, head first (a chain has at most
\* pool_size entries; a walk that long has met a cycle and is cut there)
RECURSIVE chain_ids(_, _)
chain_ids(offset, fuel) ==
    IF offset < 0 \/ fuel = 0 THEN <<>>
    ELSE <<tm.entry_pool[offset].producer_task_id>>
         \o chain_ids(tm.entry_pool[offset].next_in_bucket, fuel - 1)

ChainIds(bucket) == chain_ids(tm.buckets[bucket], tm.pool_size + 1)

Buckets == 0..(tm.num_buckets - 1)

Produced(task) == {task.params[k].tensor : k \in {j \in 1..Len(task.params) : IsProduced(task.params[j])}}

Accessed(task) == {task.params[k].tensor : k \in {j \in 1..Len(task.params) : task.params[j].type # "SCALAR"}}

Overlaps(reader, producer) ==
    is_overlap(reader, producer, ndebug).status \in {"COVERED", "OTHER"}

Slots == 0..(PTO2_TASK_WINDOW_SIZE - 1)

\* the task in slot sa must precede the task in slot sb: it was submitted before,
\* an output of it overlaps an access of the other, and it had not retired when
\* the other's predecessors had been collected
MustPrecede(sa, sb) ==
    /\ tasks[sa].task_id >= 0
    /\ tasks[sa].task_id < tasks[sb].task_id
    /\ tasks[sa].task_id >= tasks[sb].alive
    /\ \E pa \in Produced(tasks[sa]), pb \in Accessed(tasks[sb]) : Overlaps(pb, pa)

\* C1 (dependency completeness): for submitted tasks A before B, if an OUTPUT or
\* INOUT tensor of A overlaps an INPUT, INOUT or OUTPUT tensor of B and A has not
\* retired, A is among B's predecessors and B.pending_preds counts it.
C1_DependencyComplete ==
    \A sb \in Slots :
        /\ tasks[sb].pending_preds = Cardinality(tasks[sb].preds)
        /\ \A sa \in Slots : MustPrecede(sa, sb) => tasks[sa].task_id \in tasks[sb].preds

\* a published task that depends on an unretired producer, submitted after an
\* older task had retired
C1_Witness ==
    \E sa, sb \in Slots :
        /\ MustPrecede(sa, sb)
        /\ tasks[sb].task_id < submitted_count
        /\ tasks[sb].alive > 0
        /\ tasks[sa].task_id \in tasks[sb].preds

StrictlyDecreasing(ids) == \A k \in 1..(Len(ids) - 1) : ids[k] > ids[k + 1]

NonIncreasing(ids) == \A k \in 1..(Len(ids) - 1) : ids[k] >= ids[k + 1]

\* C3 as stated (P1): within each bucket chain producer_task_id is strictly
\* decreasing from head to tail.
C3_ChainStrictlyDecreasing == \A b \in Buckets : StrictlyDecreasing(ChainIds(b))

\* C3 amended: within each bucket chain producer_task_id never increases from
\* head to tail; the entries one task inserts into one bucket are neighbours
\* with equal ids.
C3_ChainNonIncreasing == \A b \in Buckets : NonIncreasing(ChainIds(b))

\* a chain holding two entries of one task above an entry of an older task
C3_Witness ==
    \E b \in Buckets :
        LET ids == ChainIds(b) IN Len(ids) >= 3 /\ ids[1] = ids[2] /\ ids[2] > ids[3]

\* C4 (P2, truncation soundness): right after a lookup, no entry reachable from
\* the head of the bucket it walked has producer_task_id below the TensorMap's
\* last_task_alive.
C4_NoStaleAfterLookup ==
    lk.fresh =>
        \A k \in 1..Len(ChainIds(lk.bucket)) : ChainIds(lk.bucket)[k] >= tm.last_task_alive

\* a lookup that truncated and left a non-empty chain
C4_Witness == lk.fresh /\ lk.unlinked # {} /\ ChainIds(lk.bucket) # <<>>

\* C5: every entry a lookup unlinks by truncation has producer_task_id below
\* last_task_alive.
C5_TruncationDropsOnlyStale ==
    lk.fresh => \A id \in lk.unlinked : id < tm.last_task_alive

\* a truncation that unlinked entries no explicit cleanup had removed yet
C5_Witness ==
    /\ lk.fresh /\ lk.unlinked # {}
    /\ \A id \in lk.unlinked : id < tm.last_task_alive /\ id >= tensormap_last_cleanup

-----------------------------------------------------------------------------
(* Cleanup of retired tasks, the bucket hash, the task window *)

\* a step in which pto2_orchestrator_sync_tensormap ran cleanup_retired: it ran
\* over [tensormap_last_cleanup, tensormap_last_cleanup') and returned
CleanupRan == tensormap_last_cleanup' # tensormap_last_cleanup

RetiredRange == tensormap_last_cleanup..(tensormap_last_cleanup' - 1)

\* the entries a walk from the bucket heads of map m reaches
RECURSIVE chain_offsets(_, _, _)
chain_offsets(m, offset, fuel) ==
    IF offset < 0 \/ fuel = 0 THEN {}
    ELSE {offset} \cup chain_offsets(m, m.entry_pool[offset].next_in_bucket, fuel - 1)

Linked(m) ==
    {i \in 0..(m.pool_size - 1) : m.entry_pool[i].in_bucket}
    \cup UNION {chain_offsets(m, m.buckets[b], m.pool_size + 1) : b \in 0..(m.num_buckets - 1)}

\* C17 (cleanup_retired removes exactly the retired tasks' entries): after
\* cleanup_retired(old, new) returns, every pool entry whose producer_task_id is
\* in [old, new) is out of its bucket chain, task_entry_head of each such task's
\* slot is -1, and no entry whose producer_task_id is outside [old, new) has been
\* unlinked.
C17_CleanupRemovesExactlyRetired ==
    [][CleanupRan =>
          /\ \A i \in Pool : tm'.entry_pool[i].producer_task_id \in RetiredRange
                             => i \notin Linked(tm')
          /\ \A t \in RetiredRange :
                 tm'.task_entry_head[BitAnd(t, PTO2_TASK_WINDOW_SIZE - 1)] = -1
          /\ \A i \in Linked(tm) \ Linked(tm') :
                 tm.entry_pool[i].producer_task_id \in RetiredRange]_vars

\* the parts of C17 that hold: the slots' heads are cleared and nothing outside
\* the range is unlinked
C17_HeadsClearedOnlyRetiredUnlinked ==
    [][CleanupRan =>
          /\ \A t \in RetiredRange :
                 tm'.task_entry_head[BitAnd(t, PTO2_TASK_WINDOW_SIZE - 1)] = -1
          /\ \A i \in Linked(tm) \ Linked(tm') :
                 tm.entry_pool[i].producer_task_id \in RetiredRange]_vars

\* C19 (P6, window monotonicity): in every reachable state
\* last_task_alive <= submitted_count, neither counter ever decreases, and the
\* TensorMap's validity threshold tm.last_task_alive, set by sync_validity,
\* never decreases either.
C19_WindowMonotonic ==
    /\ [](last_task_alive <= submitted_count)
    /\ [][/\ last_task_alive' >= last_task_alive
          /\ submitted_count' >= submitted_count
          /\ tm'.last_task_alive >= tm.last_task_alive]_vars

\* the threshold has been raised by a sync and the executor is ahead of it again
C19_Witness ==
    /\ tm.last_task_alive >= 2
    /\ tm.last_task_alive < last_task_alive
    /\ last_task_alive < submitted_count

\* the task ids before id that share slot s
EarlierOccupants(s, id) ==
    {t \in 0..(id - 1) : BitAnd(t, PTO2_TASK_WINDOW_SIZE - 1) = s}

\* C20 (window admission): a task id is submitted only while
\* id - last_task_alive < TASK_WINDOW_SIZE, so the slot id mod WINDOW, in the
\* task window and in task_entry_head, is never rewritten while the task that
\* previously occupied it is alive: every task retires before its slot is reused.
C20_WindowAdmission ==
    /\ [](pc \in {"lookup", "insert", "insert_wait"}
           => cur.task_id - last_task_alive < PTO2_TASK_WINDOW_SIZE)
    /\ [][\A s \in Slots :
             /\ tasks'[s] # tasks[s]
                => /\ tasks[s].task_id < last_task_alive
                   /\ BitAnd(tasks'[s].task_id, PTO2_TASK_WINDOW_SIZE - 1) = s
                   /\ \A t \in EarlierOccupants(s, tasks'[s].task_id) : t < last_task_alive
             /\ (tm'.task_entry_head[s] # tm.task_entry_head[s] /\ tm'.task_entry_head[s] >= 0)
                => LET id == tm'.entry_pool[tm'.task_entry_head[s]].producer_task_id
                   IN /\ BitAnd(id, PTO2_TASK_WINDOW_SIZE - 1) = s
                      /\ id - last_task_alive < PTO2_TASK_WINDOW_SIZE
                      /\ \A t \in EarlierOccupants(s, id) : t < last_task_alive]_vars

\* a slot has been reused: it holds a task of the second round of the window and
\* task_entry_head of the slot leads to that task's entry
C20_Witness ==
    \E s \in Slots :
        /\ tasks[s].task_id >= PTO2_TASK_WINDOW_SIZE
        /\ tm.task_entry_head[s] >= 0
        /\ tm.entry_pool[tm.task_entry_head[s]].producer_task_id = tasks[s].task_id

-----------------------------------------------------------------------------
(* Descriptor methods of tensor_orch.cpp: constructor, optimize, view,     *)
(* reshape, transpose.  A call is modelled by what it leaves behind:       *)
(* [self, result, status], the object it was called on as it stands after  *)
(* the call, the value returned, and "ASSERT" when an assertion threw.     *)

\* calls applied one after the other to the descriptor last returned
MaxOps == 2

Call(self, result, status) == [self |-> self, result |-> result, status |-> status]

Swap(seq, i, j) == [seq EXCEPT ![i] = seq[j], ![j] = seq[i]]

\* the plausible slip for the joint sort: the strides swapped without the repeats
swap_dims_StridesOnly(t, i, j) == [t EXCEPT !.strides = Swap(@, i, j)]

\* tensor_orch.cpp 129-130: strides and repeats of two dimensions exchanged
swap_dims(t, i, j) ==
    [t EXCEPT !.strides = Swap(@, i, j), !.repeats = Swap(@, i, j)]

\* resort_strides, the two loops: i, j are 1-based here
RECURSIVE resort_from(_, _, _)
resort_from(t, i, j) ==
    IF i > t.ndims THEN t
    ELSE IF j > t.ndims THEN resort_from(t, i + 1, i + 2)
    ELSE IF \/ t.strides[i] < t.strides[j]
            \/ (t.strides[i] = t.strides[j] /\ t.repeats[i] < t.repeats[j])
         THEN resort_from(swap_dims(t, i, j), i, j + 1)
         ELSE resort_from(t, i, j + 1)

resort_strides(t) == resort_from(t, 1, 2)

\* collect_all_offsets: every offset, the last dimension running fastest
RECURSIVE collect_from(_, _, _, _, _)
collect_from(strides_arr, repeats_arr, i, k, offset) ==
    IF i > Len(strides_arr) THEN <<offset>>
    ELSE IF k >= repeats_arr[i] THEN <<>>
    ELSE collect_from(strides_arr, repeats_arr, i + 1, 0, offset + k * strides_arr[i])
         \o collect_from(strides_arr, repeats_arr, i, k + 1, offset)

collect_all_offsets(t, strides_arr, repeats_arr) ==
    collect_from(strides_arr, repeats_arr, 1, 0, t.start_offset)

\* std::sort of a vector of offsets
RECURSIVE sort_insert(_, _)
sort_insert(sorted, x) ==
    IF sorted = <<>> THEN <<x>>
    ELSE IF x <= Head(sorted) THEN <<x>> \o sorted
    ELSE <<Head(sorted)>> \o sort_insert(Tail(sorted), x)

RECURSIVE sort_offsets(_)
sort_offsets(offsets) ==
    IF offsets = <<>> THEN <<>>
    ELSE sort_insert(sort_offsets(Tail(offsets)), Head(offsets))

\* validate_memory_access_preserved, called on the resorted descriptor
validate_memory_access_preserved(t, original_strides, original_repeats) ==
    sort_offsets(collect_all_offsets(t, original_strides, original_repeats))
        = sort_offsets(collect_all_offsets(t, t.strides, t.repeats))

\* optimize: sorts *this in place and returns a reference to it
optimize(t, nd) ==
    LET sorted == resort_strides(t)
    IN Call(sorted, sorted,
            IF ~nd /\ ~validate_memory_access_preserved(sorted, t.strides, t.repeats)
            THEN "ASSERT" ELSE "OK")

\* the constructor: the fields are stored as given; a debug build asserts
\* that a normalized copy is a valid tensor
construct(addr, size, start_offset, strides, repeats, dtype, version, overlap_type, nd) ==
    LET this == Tensor(addr, size, start_offset, strides, repeats, dtype, version,
                       overlap_type)
        copy == optimize(this, nd)
    IN Call(this, this,
            IF ~nd /\ (copy.status = "ASSERT" \/ ~is_valid_tensor(copy.result))
            THEN "ASSERT" ELSE "OK")

RECURSIVE offset_ndim_to_1d_from(_, _, _)
offset_ndim_to_1d_from(t, offset_ndims, i) ==
    IF i = 0 THEN 0
    ELSE offset_ndim_to_1d_from(t, offset_ndims, i - 1) + offset_ndims[i] * t.strides[i]

\* a plausible slip: the offsets are added up as if every stride were 1
offset_ndim_to_1d_Unstrided(t, offset_ndims) ==
    offset_ndim_to_1d_from([t EXCEPT !.strides = [i \in 1..t.ndims |-> 1]], offset_ndims, t.ndims)

offset_ndim_to_1d(t, offset_ndims) == offset_ndim_to_1d_from(t, offset_ndims, t.ndims)

valid_view(t, shapes, offsets) ==
    \A i \in 1..t.ndims : shapes[i] + offsets[i] <= t.repeats[i]

\* the plausible slip for view: the window applied to the source itself
view_InPlace(t, shapes, offsets, nd) ==
    IF ~nd /\ ~valid_view(t, shapes, offsets) THEN Call(t, t, "ASSERT")
    ELSE LET moved == [t EXCEPT !.start_offset = t.start_offset + offset_ndim_to_1d(t, offsets),
                                !.repeats = shapes]
         IN Call(moved, moved, "OK")

\* view (array overload): a copy with the start moved and the repeats replaced
view(t, shapes, offsets, nd) ==
    IF ~nd /\ ~valid_view(t, shapes, offsets) THEN Call(t, t, "ASSERT")
    ELSE Call(t,
              [t EXCEPT !.start_offset = t.start_offset + offset_ndim_to_1d(t, offsets),
                        !.repeats = shapes],
              "OK")

is_contiguous(t) ==
    IF t.ndims = 0 THEN TRUE
    ELSE /\ t.strides[t.ndims] = 1
         /\ \A i \in 1..(t.ndims - 1) : t.strides[i] = t.strides[i + 1] * t.repeats[i + 1]

RECURSIVE product(_, _)
product(seq, i) == IF i = 0 THEN 1 ELSE product(seq, i - 1) * seq[i]

valid_reshape(t, shapes) == product(t.repeats, t.ndims) = product(shapes, Len(shapes))

\* reshape, the loop that builds the row-major strides of the new shape
RECURSIVE reshape_strides(_, _)
reshape_strides(shapes, i) ==
    IF i > Len(shapes) THEN <<>>
    ELSE <<product(SubSeq(shapes, i + 1, Len(shapes)), Len(shapes) - i)>>
         \o reshape_strides(shapes, i + 1)

\* a plausible slip: the contiguity of the source is not tested
reshape_Unchecked(t, shapes, nd) ==
    IF ~nd /\ ~valid_reshape(t, shapes) THEN Call(t, t, "ASSERT")
    ELSE LET made == construct(t.addr, t.size, t.start_offset, reshape_strides(shapes, 1),
                               shapes, t.dtype, t.version, t.overlap_type, nd)
         IN Call(t, made.result, made.status)

reshape(t, shapes, nd) ==
    IF ~nd /\ ~valid_reshape(t, shapes) THEN Call(t, t, "ASSERT")
    ELSE IF ~is_contiguous(t) THEN Call(t, t, "ASSERT")
    ELSE LET made == construct(t.addr, t.size, t.start_offset, reshape_strides(shapes, 1),
                               shapes, t.dtype, t.version, t.overlap_type, nd)
         IN Call(t, made.result, made.status)

\* x, y are 0-based as in the code
valid_transpose(t, x, y) == x < t.ndims /\ y < t.ndims

transpose(t, x, y, nd) ==
    IF ~nd /\ ~valid_transpose(t, x, y) THEN Call(t, t, "ASSERT")
    ELSE Call(t, [t EXCEPT !.strides = Swap(@, x + 1, y + 1),
                           !.repeats = Swap(@, x + 1, y + 1)], "OK")

-----------------------------------------------------------------------------
(* Specification SpecTn: a descriptor is constructed from drawn arguments  *)
(* and the methods are applied to it, under both builds.                   *)

\* <<strides, repeats>> as a caller may pass them: normalized, permuted (the
\* layout of a transposed tensor), with equal strides, and not valid ones
TnLayouts ==
    {<<<<1>>, <<4>>>>, <<<<1>>, <<8>>>>,
     <<<<4, 1>>, <<2, 4>>>>, <<<<4, 1>>, <<2, 3>>>>, <<<<1, 4>>, <<4, 2>>>>,
     <<<<10, 1>>, <<3, 6>>>>, <<<<1, 1>>, <<1, 3>>>>, <<<<1, 1>>, <<2, 3>>>>,
     <<<<8, 4, 1>>, <<2, 2, 4>>>>, <<<<1, 8, 4>>, <<4, 2, 2>>>>,
     <<<<10, 1>>, <<3, 12>>>>, <<<<6, 4, 1>>, <<2, 1, 2>>>>, <<<<2>>, <<4>>>>}

TnBuffer == <<4096, 256>>

\* <<dtype, overlap policy>>
TnKinds == {<<"FLOAT32", "Accurate">>, <<"BFLOAT16", "Fuzzy">>}

TnArgs ==
    {<<TnBuffer[1], TnBuffer[2], st, ly[1], ly[2], kd[1], MaxVersion, kd[2]>> :
        st \in {0, 3}, ly \in TnLayouts, kd \in TnKinds}

NoCall == Tensor(0, 0, 0, <<>>, <<>>, "FLOAT32", 0, "Accurate")

TnState(op, args, call, self, depth) ==
    [op |-> op, args |-> args, self |-> self, self_after |-> call.self,
     result |-> call.result, status |-> call.status, depth |-> depth]

InitTmOff ==
    /\ tm = <<>> /\ tensormap_last_cleanup = 0 /\ last_task_alive = 0
    /\ submitted_count = 0 /\ pc = "off" /\ cur = <<>> /\ par_idx = 0
    /\ entry_offset = -1 /\ tasks = <<>> /\ lk = <<>>

InitTn ==
    /\ \E args \in TnArgs :
          tn = TnState("none", args, Call(NoCall, NoCall, "OK"), NoCall, 0)
    /\ ndebug \in BOOLEAN
    /\ InitOvIdle
    /\ InitTmOff
    /\ InitRtOff

\* the next call is made on the descriptor the last call returned
CanCall == tn.op # "none" /\ tn.status = "OK" /\ tn.depth < MaxOps

TnConstruct ==
    /\ tn.op = "none"
    /\ LET a == tn.args
       IN tn' = TnState("ctor", a,
                        construct(a[1], a[2], a[3], a[4], a[5], a[6], a[7], a[8], ndebug),
                        NoCall, 0)
    /\ UNCHANGED <<ovVars, ndebug, tmVars, rtVars>>

TnOptimize ==
    /\ CanCall
    /\ tn' = TnState("optimize", <<>>, optimize(tn.result, ndebug), tn.result,
                     tn.depth + 1)
    /\ UNCHANGED <<ovVars, ndebug, tmVars, rtVars>>

\* shapes: the source's, one dimension one shorter, or no element at all along
\* an innermost dimension of stride 1 (there the uint64 sums of get_fuzzy_seg end
\* in range, so that they are the integer sums); offsets: zero, or 1 in one
\* dimension (a whole dimension moved by 1 is not a valid view)
ViewShapes(t) ==
    {t.repeats} \cup {[t.repeats EXCEPT ![i] = @ - 1] : i \in {j \in 1..t.ndims : t.repeats[j] > 1}}
    \cup {[t.repeats EXCEPT ![i] = 0] : i \in {j \in {t.ndims} : t.strides[j] = 1}}

ViewOffsets(t) ==
    {[i \in 1..t.ndims |-> 0]} \cup {[i \in 1..t.ndims |-> IF i = k THEN 1 ELSE 0] : k \in 1..t.ndims}

TnView ==
    /\ CanCall
    /\ \E shapes \in ViewShapes(tn.result), offsets \in ViewOffsets(tn.result) :
          tn' = TnState("view", <<shapes, offsets>>, view(tn.result, shapes, offsets, ndebug),
                        tn.result, tn.depth + 1)
    /\ UNCHANGED <<ovVars, ndebug, tmVars, rtVars>>

\* new shapes: flat, split in two either way, and one element too many; for a
\* descriptor of no element the shapes of no element
ReshapeShapes(t) ==
    LET n == product(t.repeats, t.ndims)
    IN {sh \in {<<n>>, <<2, n \div 2>>, <<n \div 2, 2>>, <<n + 1>>} :
           \A i \in 1..Len(sh) : sh[i] >= 1 \/ n = 0}

TnReshape ==
    /\ CanCall
    /\ \E shapes \in ReshapeShapes(tn.result) :
          tn' = TnState("reshape", <<shapes>>, reshape(tn.result, shapes, ndebug),
                        tn.result, tn.depth + 1)
    /\ UNCHANGED <<ovVars, ndebug, tmVars, rtVars>>

\* x, y within the dimensions in use (an index past ndims reads array slots
\* the constructor never wrote)
TnTranspose ==
    /\ CanCall
    /\ \E x \in 0..(tn.result.ndims - 1), y \in 0..(tn.result.ndims - 1) :
          tn' = TnState("transpose", <<x, y>>, transpose(tn.result, x, y, ndebug),
                        tn.result, tn.depth + 1)
    /\ UNCHANGED <<ovVars, ndebug, tmVars, rtVars>>

\* get_fuzzy_seg of the descriptor the last call returned; the Segment is the
\* result, and no further call is made on it
TnFuzzySeg ==
    /\ tn.op \notin {"none", "get_fuzzy_seg"} /\ tn.status = "OK"
    /\ tn' = TnState("get_fuzzy_seg", <<>>,
                     Call(tn.result, get_fuzzy_seg(tn.result), "OK"), tn.result, MaxOps)
    /\ UNCHANGED <<ovVars, ndebug, tmVars, rtVars>>

NextTn ==
    \/ TnConstruct
    \/ TnOptimize
    \/ TnView
    \/ TnReshape
    \/ TnTranspose
    \/ TnFuzzySeg

SpecTn == InitTn /\ [][NextTn]_vars

-----------------------------------------------------------------------------
(* Claims about the descriptor methods *)

\* the index tuples of a descriptor and the offset each one reaches
IndexTuples(t) ==
    {idx \in [1..t.ndims -> 0..11] : \A i \in 1..t.ndims : idx[i] < t.repeats[i]}

RECURSIVE OffsetAt(_, _, _)
OffsetAt(t, idx, i) ==
    IF i = 0 THEN t.start_offset ELSE OffsetAt(t, idx, i - 1) + idx[i] * t.strides[i]

\* how many index tuples reach element offset o: its multiplicity
OffsetCount(t, o) == Cardinality({idx \in IndexTuples(t) : OffsetAt(t, idx, t.ndims) = o})

SameOffsetBag(a, b) ==
    /\ ElemOffsets(a) = ElemOffsets(b)
    /\ \A o \in ElemOffsets(a) : OffsetCount(a, o) = OffsetCount(b, o)

PairCount(t, pr) ==
    Cardinality({i \in 1..t.ndims : <<t.strides[i], t.repeats[i]>> = pr})

SamePairs(a, b) ==
    /\ a.ndims = b.ndims
    /\ \A i \in 1..a.ndims :
          LET pr == <<a.strides[i], a.repeats[i]>> IN PairCount(a, pr) = PairCount(b, pr)

\* C14 (P4): optimize/resort_strides permutes the (stride, repeat) pairs jointly,
\* the multiset of element offsets is the same before and after, start_offset,
\* ndims, dtype and buffer are unchanged (and the debug verification passes).
C14_NormalizePreservesAccess ==
    tn.op = "optimize" =>
        /\ tn.status = "OK"
        /\ tn.result = tn.self_after
        /\ SamePairs(tn.self, tn.self_after)
        /\ SameOffsetBag(tn.self, tn.self_after)
        /\ tn.self_after.start_offset = tn.self.start_offset
        /\ tn.self_after.ndims = tn.self.ndims
        /\ tn.self_after.dtype = tn.self.dtype
        /\ tn.self_after.addr = tn.self.addr /\ tn.self_after.size = tn.self.size

\* a debug build normalizing a permuted layout whose offsets repeat or not
C14_Witness ==
    /\ tn.op = "optimize" /\ ~ndebug /\ tn.status = "OK"
    /\ tn.self.ndims = 3 /\ tn.self_after.strides # tn.self.strides

\* the invariants the spec lists for a normalized descriptor
NormalizedInvariants(t) ==
    /\ \A i \in 2..t.ndims : t.strides[i - 1] >= t.strides[i]
    /\ t.strides[t.ndims] = 1
    /\ \A i \in 2..t.ndims : t.strides[i - 1] % t.strides[i] = 0
    /\ \A i \in 2..t.ndims : t.strides[i - 1] >= t.strides[i] * t.repeats[i]
    /\ (last_offset(t, t.ndims) + 1) * get_element_size(t.dtype) <= t.size

\* C15 as stated: every descriptor the constructor accepts satisfies, after
\* normalization, the order, innermost-1, divisibility, block and buffer rules.
C15_AcceptedIsValid ==
    (tn.op = "ctor" /\ tn.status = "OK") => NormalizedInvariants(resort_strides(tn.result))

\* C16: view, reshape and transpose leave every field of their source as it
\* was, and a returned descriptor keeps the source's base address, buffer size,
\* dtype, version and overlap policy.
C16_SourceNotMutated ==
    tn.op \in {"view", "reshape", "transpose"} =>
        /\ tn.self_after = tn.self
        /\ tn.status = "OK" =>
              /\ tn.result.addr = tn.self.addr /\ tn.result.size = tn.self.size
              /\ tn.result.dtype = tn.self.dtype /\ tn.result.version = tn.self.version
              /\ tn.result.overlap_type = tn.self.overlap_type

\* a view that moved the start and shortened a dimension
C16_Witness ==
    /\ tn.op = "view" /\ tn.status = "OK"
    /\ tn.result.start_offset # tn.self.start_offset
    /\ tn.result.repeats # tn.self.repeats
    /\ tn.self_after = tn.self

-----------------------------------------------------------------------------
(* Initialisation of the TensorMap: pto2_tensormap_init is called with     *)
(* drawn arguments and a tensor is hashed into every map it accepts.       *)

\* pto2_tensormap_init line 32: the test the bucket count must pass
pto2_tensormap_init_accepts(num_buckets) ==
    BitAnd(num_buckets, num_buckets - 1) = 0

\* the bucket counts and pool sizes the caller may pass
BucketArgs == 0..(2 * NumBuckets + 1)
PoolArgs == 1..PoolSize

\* the tensors hashed, on five buffers
ProbeTensors == {TA0, TB, TC, TmTensor(65536 + 4096, 0, 4, 0), TmTensor(3 * 65536, 2, 2, 0)}

InitIn ==
    /\ InitRtOff /\ InitOvIdle /\ tn = <<>> /\ ndebug \in BOOLEAN
    /\ tm = <<>> /\ tensormap_last_cleanup = 0 /\ last_task_alive = 0
    /\ submitted_count = 0 /\ par_idx = 0 /\ entry_offset = -1 /\ tasks = <<>>
    /\ pc = "init"
    /\ \E nb \in BucketArgs, ps \in PoolArgs, t \in ProbeTensors :
          /\ cur = [num_buckets |-> nb, pool_size |-> ps]
          /\ lk = [tensor |-> t, bucket |-> -1]

\* pto2_tensormap_init: false when the bucket count fails the test or an
\* allocation returns NULL, else the map is set up and true is returned
TensorMapInit ==
    /\ pc = "init"
    /\ \E allocated \in BOOLEAN :
          IF pto2_tensormap_init_accepts(cur.num_buckets) /\ allocated
          THEN /\ tm' = pto2_tensormap_init(cur.num_buckets, cur.pool_size)
               /\ pc' = "ready"
          ELSE /\ pc' = "refused"
               /\ UNCHANGED tm
    /\ UNCHANGED <<tensormap_last_cleanup, last_task_alive, submitted_count, cur,
                   par_idx, entry_offset, tasks, lk>>
    /\ UNCHANGED <<ovVars, tn, ndebug, rtVars>>

\* pto2_tensormap_hash on a map that initialisation accepted
HashProbe ==
    /\ pc = "ready"
    /\ lk' = [lk EXCEPT !.bucket = pto2_tensormap_hash(tm.num_buckets, lk.tensor)]
    /\ pc' = "probed"
    /\ UNCHANGED <<tm, tensormap_last_cleanup, last_task_alive, submitted_count, cur,
                   par_idx, entry_offset, tasks>>
    /\ UNCHANGED <<ovVars, tn, ndebug, rtVars>>

NextIn ==
    \/ TensorMapInit
    \/ HashProbe

SpecIn == InitIn /\ [][NextIn]_vars

IsPowerOfTwo(n) == \E k \in 0..n : n = 2 ^ k

\* C30 (power-of-two bucket count): a bucket count that is not a power of two
\* is refused, every map that initialisation accepts has a power-of-two bucket
\* count, and hash & (num_buckets - 1) indexes inside the bucket array.
C30_PowerOfTwoBuckets ==
    /\ (pc # "init" /\ ~IsPowerOfTwo(cur.num_buckets)) => pc = "refused"
    /\ pc \in {"ready", "probed"} => IsPowerOfTwo(tm.num_buckets)
    /\ pc = "probed" => lk.bucket \in DOMAIN tm.buckets

\* the same with the count zero set aside: what the test of line 32 ensures
C30_PositiveCountsOnly ==
    cur.num_buckets > 0
    => /\ (pc # "init" /\ ~IsPowerOfTwo(cur.num_buckets)) => pc = "refused"
       /\ pc \in {"ready", "probed"} => IsPowerOfTwo(tm.num_buckets)
       /\ pc = "probed" => lk.bucket \in DOMAIN tm.buckets

-----------------------------------------------------------------------------
(* The heap: a scope-anchored bump arena over a fixed buffer (base, size). *)
(* cursor is the offset of the first free byte; scopes is the stack of     *)
(* cursors saved by scope_begin, innermost last.                           *)

\* bytes of the arena
HeapSize == 32

\* scopes open at once
MaxScopes == 2

HeapBase == 16 * 65536

heap_init(base, size) == [base |-> base, size |-> size, cursor |-> 0, scopes |-> <<>>]

\* the first offset at or after cursor whose address is a multiple of align
align_up(base, cursor, align) ==
    cursor + ((align - ((base + cursor) % align)) % align)

\* alloc fails if the bumped cursor would exceed size
heap_alloc_fits(hp, n_bytes, align) ==
    align_up(hp.base, hp.cursor, align) + n_bytes <= hp.size

\* alloc(n_bytes, align): the pointer returned (0: failure) and the heap after
heap_alloc(hp, n_bytes, align) ==
    LET start == align_up(hp.base, hp.cursor, align)
    IN IF heap_alloc_fits(hp, n_bytes, align)
       THEN [ptr |-> hp.base + start, heap |-> [hp EXCEPT !.cursor = start + n_bytes]]
       ELSE [ptr |-> 0, heap |-> hp]

\* scope_begin(): push the current cursor
heap_scope_begin(hp) == [hp EXCEPT !.scopes = Append(@, hp.cursor)]

\* a plausible slip: the scope is popped and the cursor left where it is
heap_scope_end_KeepCursor(hp) ==
    [hp EXCEPT !.scopes = SubSeq(@, 1, Len(@) - 1)]

\* scope_end(): pop and reset the cursor to the value popped
heap_scope_end(hp) ==
    [hp EXCEPT !.cursor = hp.scopes[Len(hp.scopes)],
               !.scopes = SubSeq(@, 1, Len(@) - 1)]

\* the sizes and alignments the caller asks for
AllocSizes == {4, 8, 12}
AllocAligns == {1, 8}

\* hist here: the cursors seen at the scope_begin calls still open, innermost
\* last, and what the last call was
InitHeap ==
    /\ InitOvIdle /\ InitTmOff /\ tn = <<>> /\ ndebug \in BOOLEAN
    /\ window_bits = WindowBits /\ prog = "heap" /\ ip = 0
    /\ slot_status = <<>> /\ successors = <<>> /\ bufs = <<>> /\ cores = <<>>
    /\ orchestrator_done = 0
    /\ heap = heap_init(HeapBase, HeapSize)
    /\ hist = [open |-> <<>>, last |-> "init", ptr |-> 0]

HeapScopeBegin ==
    /\ Len(heap.scopes) < MaxScopes
    /\ heap' = heap_scope_begin(heap)
    /\ hist' = [open |-> Append(hist.open, heap.cursor), last |-> "scope_begin", ptr |-> 0]
    /\ UNCHANGED <<window_bits, prog, ip, slot_status, successors, bufs, cores, orchestrator_done>>
    /\ UNCHANGED <<ovVars, tn, ndebug, tmVars>>

HeapAlloc(n_bytes, align) ==
    /\ LET r == heap_alloc(heap, n_bytes, align)
       IN /\ heap' = r.heap
          /\ hist' = [hist EXCEPT !.last = IF r.ptr = 0 THEN "alloc_failed" ELSE "alloc",
                                  !.ptr = r.ptr]
    /\ UNCHANGED <<window_bits, prog, ip, slot_status, successors, bufs, cores, orchestrator_done>>
    /\ UNCHANGED <<ovVars, tn, ndebug, tmVars>>

HeapScopeEnd ==
    /\ Len(heap.scopes) > 0
    /\ heap' = heap_scope_end(heap)
    /\ hist' = [open |-> SubSeq(hist.open, 1, Len(hist.open) - 1), last |-> "scope_end", ptr |-> 0]
    /\ UNCHANGED <<window_bits, prog, ip, slot_status, successors, bufs, cores, orchestrator_done>>
    /\ UNCHANGED <<ovVars, tn, ndebug, tmVars>>

NextHeap ==
    \/ HeapScopeBegin
    \/ \E n_bytes \in AllocSizes, align \in AllocAligns : HeapAlloc(n_bytes, align)
    \/ HeapScopeEnd

SpecHeap == InitHeap /\ [][NextHeap]_vars

\* C25 (P7, heap LIFO): for any properly nested sequence of scope_begin, alloc
\* and scope_end, each scope_end restores the heap cursor to the value it had at
\* the matching scope_begin, and the cursor never exceeds the arena size: alloc
\* fails instead.
C25_HeapLifo ==
    /\ [](heap.cursor <= heap.size)
    /\ [](hist.last = "alloc_failed" => hist.ptr = 0)
    /\ [][Len(heap'.scopes) < Len(heap.scopes)
          => heap'.cursor = hist.open[Len(hist.open)]]_vars

\* an inner scope has ended after allocations, with the outer scope still open
\* and holding an allocation of its own
C25_Witness ==
    /\ hist.last = "scope_end"
    /\ Len(heap.scopes) = 1
    /\ heap.cursor > heap.scopes[1]
    /\ heap.cursor < heap.size

-----------------------------------------------------------------------------
(* The runtime: the orchestration program, submit_task in full, and the    *)
(* executor with its worker cores, over the task window and the heap.      *)

PTO2_WORKER_CUBE == "CUBE"
PTO2_WORKER_VECTOR == "VECTOR"

\* a plausible slip: the buffer size is taken in elements
make_1d_contiguous_SizeInElements(addr, size_bytes, dtype, version) ==
    Tensor(addr, size_bytes \div get_element_size(dtype), 0, <<1>>,
           <<size_bytes \div get_element_size(dtype)>>, dtype, version, "Accurate")

\* Tensor::make_1d_contiguous and the factory helpers of tensor.h
make_1d_contiguous(addr, size_bytes, dtype, version) ==
    Tensor(addr, size_bytes, 0, <<1>>, <<size_bytes \div get_element_size(dtype)>>,
           dtype, version, "Accurate")

make_tensor_external(addr, size_bytes) == make_1d_contiguous(addr, size_bytes, "FLOAT32", 0)

\* a runtime-allocated output: addr = 0 until submit_task fills it in
make_tensor(size_bytes) == make_1d_contiguous(0, size_bytes, "FLOAT32", 0)

\* the byte size of the buffers of the example
BYTES == 2 * get_element_size("FLOAT32")

\* the statements of an orchestration program; a parameter names the
\* caller's tensor it is made from
SubmitOp(worker_kind, args) == [op |-> "submit", worker_kind |-> worker_kind, args |-> args]
ScopeBeginOp == [op |-> "scope_begin"]
ScopeEndOp == [op |-> "scope_end"]
In(name) == <<"INPUT", name>>
Out(name) == <<"OUTPUT", name>>
Scalar == <<"SCALAR", "">>

\* S1, the diamond of example_orchestration.cpp: a, b, f external; c, d, e
\* allocated by the runtime
DiamondTensors ==
    [a |-> make_tensor_external(4096, BYTES), b |-> make_tensor_external(8192, BYTES),
     f |-> make_tensor_external(65536, BYTES),
     c |-> make_tensor(BYTES), d |-> make_tensor(BYTES), e |-> make_tensor(BYTES)]

DiamondProgram ==
    <<ScopeBeginOp,
      SubmitOp(PTO2_WORKER_VECTOR, <<In("a"), In("b"), Out("c")>>),
      SubmitOp(PTO2_WORKER_VECTOR, <<In("c"), Scalar, Out("d")>>),
      SubmitOp(PTO2_WORKER_VECTOR, <<In("c"), Scalar, Out("e")>>),
      SubmitOp(PTO2_WORKER_VECTOR, <<In("d"), In("e"), Out("f")>>),
      ScopeEndOp>>

\* S6: 2 * TASK_WINDOW_SIZE tasks with no dependencies, each writing a buffer
\* of its own
RingCount == 2 * (2 ^ WindowBits)

RingTensors == [i \in 1..RingCount |-> make_tensor_external(4096 * i, BYTES)]

RingProgram == [i \in 1..RingCount |-> SubmitOp(PTO2_WORKER_VECTOR, <<Out(i)>>)]

\* nested scopes in the manner of paged_attention_orch.cpp: an inner scope
\* whose buffer is given back, and an output that already has its address
NestedTensors ==
    [x |-> make_tensor(2 * BYTES), y |-> make_tensor(BYTES), z |-> make_tensor(2 * BYTES),
     g |-> make_tensor_external(8192, BYTES)]

NestedProgram ==
    <<ScopeBeginOp,
      SubmitOp(PTO2_WORKER_VECTOR, <<Out("x")>>),
      ScopeBeginOp,
      SubmitOp(PTO2_WORKER_CUBE, <<In("x"), Out("y")>>),
      ScopeEndOp,
      SubmitOp(PTO2_WORKER_VECTOR, <<In("x"), Out("z"), Out("g")>>),
      ScopeEndOp>>

\* one scope asking for more than the arena holds
GreedyTensors ==
    [x |-> make_tensor(2 * BYTES), y |-> make_tensor(2 * BYTES), z |-> make_tensor(2 * BYTES)]

GreedyProgram ==
    <<ScopeBeginOp,
      SubmitOp(PTO2_WORKER_VECTOR, <<Out("x")>>),
      SubmitOp(PTO2_WORKER_VECTOR, <<Out("y")>>),
      SubmitOp(PTO2_WORKER_VECTOR, <<Out("z")>>),
      ScopeEndOp>>

ProgramNames == {"diamond", "ring", "nested", "greedy"}

Program ==
    CASE prog = "diamond" -> DiamondProgram
      [] prog = "ring" -> RingProgram
      [] prog = "nested" -> NestedProgram
      [] OTHER -> GreedyProgram

ProgramTensors(name) ==
    CASE name = "diamond" -> DiamondTensors
      [] name = "ring" -> RingTensors
      [] name = "nested" -> NestedTensors
      [] OTHER -> GreedyTensors

\* the example is built with a window that holds the whole diamond; the ring
\* scenario is sized by its window
ProgramWindowBits(name) == IF name = "ring" THEN WindowBits ELSE WindowBits + 1

\* pool_size is an argument of pto2_tensormap_init: S6 is run with a pool of
\* PoolSize entries and with one of as many entries as the task window has slots
ProgramPoolSizes(name) ==
    IF name = "ring" THEN {PoolSize, 2 ^ ProgramWindowBits(name)} ELSE {PoolSize}

\* the worker cores, one handshake each
CoreKinds == <<PTO2_WORKER_VECTOR, PTO2_WORKER_CUBE>>
Cores == 1..Len(CoreKinds)
IdleCore == -1

task_slot(id) == BitAnd(id, PTO2_TASK_WINDOW_SIZE - 1)

\* hist is history: dec, the (predecessor, successor) pairs whose decrement of
\* pending_preds has happened; twice, those that happened again; at_submit,
\* those the orchestrator made in step 5; allocs, the live heap allocations of submit_task with the number of
\* scopes open when each was made; ran, the tasks dispatched so far
InitRt ==
    /\ prog \in ProgramNames
    /\ window_bits = ProgramWindowBits(prog)
    /\ ip = 1
    /\ bufs = ProgramTensors(prog)
    /\ \E pool_size \in ProgramPoolSizes(prog) : InitTmPool(pool_size)
    /\ slot_status = [s \in 0..(PTO2_TASK_WINDOW_SIZE - 1) |-> "Empty"]
    /\ successors = [s \in 0..(PTO2_TASK_WINDOW_SIZE - 1) |-> <<>>]
    /\ heap = heap_init(HeapBase, HeapSize)
    /\ cores = [k \in Cores |-> IdleCore]
    /\ orchestrator_done = 0
    /\ hist = [dec |-> {}, twice |-> {}, at_submit |-> {}, allocs |-> {}, ran |-> {}]
    /\ InitOvIdle /\ tn = <<>> /\ ndebug = FALSE

\* the orchestration program has statements left and the orchestrator is
\* between two calls
AtStatement(op) ==
    /\ pc = "idle"
    /\ orchestrator_done = 0
    /\ ip <= Len(Program)
    /\ Program[ip].op = op

\* the params[] array the caller builds from its tensors (pto_types.h)
MakeParams(args) ==
    [k \in 1..Len(args) |->
        IF args[k][1] = "SCALAR" THEN make_scalar_param
        ELSE Param(args[k][1], bufs[args[k][2]])]

\* make_input_param and make_inout_param assert a non-zero address
ParamsAsserted(params) ==
    \E k \in 1..Len(params) :
        params[k].type \in {"INPUT", "INOUT"} /\ params[k].tensor.addr = 0

\* submit_task step 1: task_id = submitted_count, not yet published
RtSubmit ==
    /\ AtStatement("submit")
    /\ LET params == MakeParams(Program[ip].args)
       IN IF ParamsAsserted(params)
          THEN pc' = "fault" /\ UNCHANGED <<cur, par_idx, ip>>
          ELSE /\ cur' = [task_id |-> submitted_count, params |-> params, preds |-> {},
                          with_alloc |-> {}, linked |-> {}]
               /\ par_idx' = 1
               /\ ip' = ip + 1
               /\ pc' = "alloc"
    /\ UNCHANGED <<tm, tensormap_last_cleanup, last_task_alive, submitted_count,
                   entry_offset, tasks, lk>>
    /\ UNCHANGED <<window_bits, prog, slot_status, successors, heap, bufs, cores,
                   orchestrator_done, hist>>
    /\ UNCHANGED <<ovVars, tn, ndebug>>

\* the parameter submit_task step 2 allocates: OUTPUT with addr == 0
NeedsAlloc(p) == p.type = "OUTPUT" /\ p.tensor.addr = 0

\* submit_task step 2 from parameter k on: each such tensor gets alloc(its
\* byte size) and the address is written into it
RECURSIVE alloc_outputs(_, _, _)
alloc_outputs(hp, params, k) ==
    IF k > Len(params)
    THEN [heap |-> hp, params |-> params, with_alloc |-> {}, failed |-> FALSE]
    ELSE IF NeedsAlloc(params[k])
         THEN LET r == heap_alloc(hp, params[k].tensor.size,
                                  get_element_size(params[k].tensor.dtype))
              IN IF r.ptr = 0
                 THEN [heap |-> hp, params |-> params, with_alloc |-> {}, failed |-> TRUE]
                 ELSE LET rest == alloc_outputs(r.heap,
                                      [params EXCEPT ![k].tensor.addr = r.ptr], k + 1)
                      IN [rest EXCEPT !.with_alloc = @ \cup {k}]
         ELSE alloc_outputs(hp, params, k + 1)

\* the statement whose submit_task is under way
CurArgs == Program[ip - 1].args

\* the address is written back into the caller's tensor
backfill(caller, args, params, with_alloc) ==
    [name \in DOMAIN caller |->
        IF \E k \in with_alloc : args[k][2] = name
        THEN params[CHOOSE k \in with_alloc : args[k][2] = name].tensor
        ELSE caller[name]]

\* submit_task step 2; a heap that cannot serve the request is resource
\* exhaustion, which nothing but scope_end relieves: the watchdog fires
AllocOutputs ==
    /\ pc = "alloc"
    /\ LET r == alloc_outputs(heap, cur.params, 1)
       IN IF r.failed
          THEN /\ pc' = "fault"
               /\ UNCHANGED <<cur, heap, bufs, hist>>
          ELSE /\ pc' = "admit"
               /\ cur' = [cur EXCEPT !.params = r.params, !.with_alloc = r.with_alloc]
               /\ heap' = r.heap
               /\ bufs' = backfill(bufs, CurArgs, r.params, r.with_alloc)
               /\ hist' = [hist EXCEPT !.allocs = @ \cup
                              {[name |-> CurArgs[k][2], ptr |-> r.params[k].tensor.addr,
                                size |-> r.params[k].tensor.size,
                                depth |-> Len(heap.scopes)] : k \in r.with_alloc}]
    /\ UNCHANGED <<tm, tensormap_last_cleanup, last_task_alive, submitted_count,
                   par_idx, entry_offset, tasks, lk>>
    /\ UNCHANGED <<window_bits, prog, ip, slot_status, successors, cores, orchestrator_done>>
    /\ UNCHANGED <<ovVars, tn, ndebug>>

\* submit_task step 4: the slot is written, pending_preds = |unique
\* predecessors|, status = Pending
RtInitTaskSlot ==
    /\ pc = "lookup"
    /\ par_idx > Len(cur.params)
    /\ tasks' = [tasks EXCEPT ![task_slot(cur.task_id)] =
                    [task_id |-> cur.task_id, params |-> cur.params, preds |-> cur.preds,
                     pending_preds |-> Cardinality(cur.preds),
                     alive |-> last_task_alive,
                     worker_kind |-> Program[ip - 1].worker_kind]]
    /\ slot_status' = [slot_status EXCEPT ![task_slot(cur.task_id)] = "Pending"]
    /\ successors' = [successors EXCEPT ![task_slot(cur.task_id)] = <<>>]
    /\ pc' = "link"
    /\ UNCHANGED <<tm, tensormap_last_cleanup, last_task_alive, submitted_count,
                   cur, par_idx, entry_offset, lk>>
    /\ UNCHANGED <<window_bits, prog, ip, heap, bufs, cores, orchestrator_done, hist>>
    /\ UNCHANGED <<ovVars, tn, ndebug>>

\* the predecessors of the task under submission that step 5 has yet to visit
Unlinked == cur.preds \ cur.linked

\* a plausible slip: step 5 never finds its predecessor finished
predecessor_done_Never(p) == FALSE

\* step 5's test: the predecessor has retired, or its slot says Done
predecessor_done(p) ==
    \/ p < last_task_alive
    \/ tasks[task_slot(p)].task_id = p /\ slot_status[task_slot(p)] = "Done"

\* one fetch-subtract of pending_preds of task id, with the promotion to Ready
\* of a task that reaches zero
decrement(ts, id) == [ts EXCEPT ![task_slot(id)].pending_preds = @ - 1]

promote(st, ts, id) ==
    IF ts[task_slot(id)].pending_preds = 0 /\ st[task_slot(id)] = "Pending"
    THEN [st EXCEPT ![task_slot(id)] = "Ready"]
    ELSE st

\* the record of a decrement on behalf of predecessor p in successor s
Decremented(h, p, s, at_submit) ==
    [h EXCEPT !.dec = @ \cup {<<p, s>>},
              !.twice = IF <<p, s>> \in h.dec THEN @ \cup {<<p, s>>} ELSE @,
              !.at_submit = IF at_submit THEN @ \cup {<<p, s>>} ELSE @]

\* submit_task step 5, one predecessor: a finished one is counted off at once,
\* any other gets the task prepended to its successor list. The step and the
\* executor's completion of the predecessor are serialized.
LinkPred ==
    /\ pc = "link"
    /\ Unlinked # {}
    /\ LET p == CHOOSE q \in Unlinked : \A o \in Unlinked : q <= o
       IN /\ IF predecessor_done(p)
             THEN /\ tasks' = decrement(tasks, cur.task_id)
                  /\ slot_status' = promote(slot_status, tasks', cur.task_id)
                  /\ hist' = Decremented(hist, p, cur.task_id, TRUE)
                  /\ UNCHANGED successors
             ELSE /\ successors' = [successors EXCEPT ![task_slot(p)] = <<cur.task_id>> \o @]
                  /\ UNCHANGED <<tasks, slot_status, hist>>
          /\ cur' = [cur EXCEPT !.linked = @ \cup {p}]
    /\ UNCHANGED <<tm, tensormap_last_cleanup, last_task_alive, submitted_count,
                   pc, par_idx, entry_offset, lk>>
    /\ UNCHANGED <<window_bits, prog, ip, heap, bufs, cores, orchestrator_done>>
    /\ UNCHANGED <<ovVars, tn, ndebug>>

\* the end of step 5: a task that waits for nobody is Ready
LinkDone ==
    /\ pc = "link"
    /\ Unlinked = {}
    /\ slot_status' = promote(slot_status, tasks, cur.task_id)
    /\ pc' = "insert"
    /\ par_idx' = 1
    /\ UNCHANGED <<tm, tensormap_last_cleanup, last_task_alive, submitted_count,
                   cur, entry_offset, tasks, lk>>
    /\ UNCHANGED <<window_bits, prog, ip, successors, heap, bufs, cores,
                   orchestrator_done, hist>>
    /\ UNCHANGED <<ovVars, tn, ndebug>>

\* scope_begin(): the heap scope is pushed
ScopeBegin ==
    /\ AtStatement("scope_begin")
    /\ heap' = heap_scope_begin(heap)
    /\ ip' = ip + 1
    /\ UNCHANGED <<window_bits, prog, slot_status, successors, bufs, cores,
                   orchestrator_done, hist>>
    /\ UNCHANGED <<ovVars, tn, ndebug, tmVars>>

\* scope_end(): called once the scope's producers have retired; the heap
\* scope is popped and its allocations are given back
ScopeEnd ==
    /\ AtStatement("scope_end")
    /\ last_task_alive = submitted_count
    /\ heap' = heap_scope_end(heap)
    /\ hist' = [hist EXCEPT !.allocs = {al \in @ : al.depth < Len(heap.scopes)}]
    /\ ip' = ip + 1
    /\ UNCHANGED <<window_bits, prog, slot_status, successors, bufs, cores,
                   orchestrator_done>>
    /\ UNCHANGED <<ovVars, tn, ndebug, tmVars>>

\* a plausible slip: the flag is raised before the last statement
orchestration_finished_Early == pc = "idle" /\ ip >= Len(Program)

\* the orchestration function has left its last statement behind
orchestration_finished == pc = "idle" /\ ip > Len(Program)

\* orchestration_done(): header.orchestrator_done = 1 after all submissions
OrchDone ==
    /\ orchestration_finished
    /\ orchestrator_done = 0
    /\ orchestrator_done' = 1
    /\ UNCHANGED <<window_bits, prog, ip, slot_status, successors, heap, bufs, cores, hist>>
    /\ UNCHANGED <<ovVars, tn, ndebug, tmVars>>

\* a plausible slip: the poll starts one past the oldest task
Polled_PastOldest == (last_task_alive + 1)..(submitted_count - 1)

\* the tasks whose slots the executor polls
Polled == last_task_alive..(submitted_count - 1)

\* the executor claims a Ready slot (CAS Ready -> Running) and hands the task
\* to an idle worker core of its kind
ExDispatch(id, k) ==
    /\ id \in Polled
    /\ slot_status[task_slot(id)] = "Ready"
    /\ cores[k] = IdleCore
    /\ CoreKinds[k] = tasks[task_slot(id)].worker_kind
    /\ slot_status' = [slot_status EXCEPT ![task_slot(id)] = "Running"]
    /\ cores' = [cores EXCEPT ![k] = id]
    /\ hist' = [hist EXCEPT !.ran = @ \cup {id}]
    /\ UNCHANGED <<window_bits, prog, ip, successors, heap, bufs, orchestrator_done>>
    /\ UNCHANGED <<ovVars, tn, ndebug, tmVars>>

\* a core reports completion (aicore_done, task_status = 0): the task is Done,
\* each successor's pending_preds is decremented and those reaching zero
\* become Ready
RECURSIVE on_complete(_, _, _, _, _)
on_complete(st, ts, h, id, succ) ==
    IF succ = <<>> THEN [slot_status |-> st, tasks |-> ts, hist |-> h]
    ELSE LET ts1 == decrement(ts, succ[1])
         IN on_complete(promote(st, ts1, succ[1]), ts1, Decremented(h, id, succ[1], FALSE),
                        id, Tail(succ))

ExComplete(k) ==
    /\ cores[k] # IdleCore
    /\ LET id == cores[k]
           r == on_complete([slot_status EXCEPT ![task_slot(id)] = "Done"], tasks, hist,
                            id, successors[task_slot(id)])
       IN /\ slot_status' = r.slot_status
          /\ tasks' = r.tasks
          /\ hist' = r.hist
    /\ cores' = [cores EXCEPT ![k] = IdleCore]
    /\ UNCHANGED <<tm, tensormap_last_cleanup, last_task_alive, submitted_count, pc, cur,
                   par_idx, entry_offset, lk>>
    /\ UNCHANGED <<window_bits, prog, ip, successors, heap, bufs, orchestrator_done>>
    /\ UNCHANGED <<ovVars, tn, ndebug>>

\* a plausible slip: the oldest slot is given back whatever its status
prefix_done_Unchecked(id) == TRUE

\* the prefix of the window that ends at task id is uniformly Done
prefix_done(id) == slot_status[task_slot(id)] = "Done"

\* the oldest slot is Done: it is given back and last_task_alive advances
\* (release store)
ExAdvance ==
    /\ last_task_alive < submitted_count
    /\ prefix_done(last_task_alive)
    /\ slot_status' = [slot_status EXCEPT ![task_slot(last_task_alive)] = "Empty"]
    /\ last_task_alive' = last_task_alive + 1
    /\ UNCHANGED <<tm, tensormap_last_cleanup, submitted_count, pc, cur, par_idx,
                   entry_offset, tasks, lk>>
    /\ UNCHANGED <<window_bits, prog, ip, successors, heap, bufs, cores,
                   orchestrator_done, hist>>
    /\ UNCHANGED <<ovVars, tn, ndebug>>

\* the steps of the orchestrator core, but for the two that walk the TensorMap
Orchestrator ==
    \/ RtSubmit
    \/ AllocOutputs
    \/ AdmitTask
    \/ AdmitSync
    \/ RtInitTaskSlot
    \/ LinkPred
    \/ LinkDone
    \/ InsertAlloc
    \/ InsertLink
    \/ Publish
    \/ ScopeBegin
    \/ ScopeEnd
    \/ OrchDone

\* LookupParam can take a step
LookupEnabled == pc = "lookup" /\ par_idx <= Len(cur.params)

\* a pass of the wait loop of insert finds something changed
SpinEnabled ==
    /\ pc = "insert_wait"
    /\ insert_must_wait(tm, entry_offset)
    /\ LET r == pto2_orchestrator_sync_tensormap(tm, tensormap_last_cleanup, last_task_alive)
       IN \/ r.hang
          \/ r.tm # tm
          \/ r.tensormap_last_cleanup # tensormap_last_cleanup
          \/ lk # NoLookup

Executor ==
    \/ \E id \in 0..(submitted_count - 1), k \in Cores : ExDispatch(id, k)
    \/ \E k \in Cores : ExComplete(k)
    \/ ExAdvance

NextRt ==
    \/ RtSubmit
    \/ AllocOutputs
    \/ AdmitTask
    \/ AdmitSync
    \/ LookupParam
    \/ RtInitTaskSlot
    \/ LinkPred
    \/ LinkDone
    \/ InsertAlloc
    \/ InsertSpin
    \/ InsertLink
    \/ Publish
    \/ ScopeBegin
    \/ ScopeEnd
    \/ OrchDone
    \/ \E id \in 0..(submitted_count - 1), k \in Cores : ExDispatch(id, k)
    \/ \E k \in Cores : ExComplete(k)
    \/ ExAdvance

SpecRt == InitRt /\ [][NextRt]_vars

\* the orchestrator core and the executor core each keep running: weak
\* fairness of the executor's steps and of the orchestrator's, that of
\* LookupParam and of InsertSpin written out with their enabling conditions
SpecRtFair ==
    /\ SpecRt
    /\ WF_vars(Executor)
    /\ WF_vars(Orchestrator)
    /\ ([]<>(~LookupEnabled) \/ []<><<LookupParam>>_vars)
    /\ ([]<>(~SpinEnabled) \/ []<><<InsertSpin>>_vars)

\* the programs without the ring scenario, the orchestrator free to stop and
\* the executor core kept running
InitDag == InitRt /\ prog # "ring"

\* the steps of these programs: their task window is never full, so the sync
\* of the window spin is not among them
NextDag ==
    \/ RtSubmit
    \/ AllocOutputs
    \/ AdmitTask
    \/ LookupParam
    \/ RtInitTaskSlot
    \/ LinkPred
    \/ LinkDone
    \/ InsertAlloc
    \/ InsertSpin
    \/ InsertLink
    \/ Publish
    \/ ScopeBegin
    \/ ScopeEnd
    \/ OrchDone
    \/ \E id \in 0..(submitted_count - 1), k \in Cores : ExDispatch(id, k)
    \/ \E k \in Cores : ExComplete(k)
    \/ ExAdvance

SpecExFair == InitDag /\ [][NextDag]_vars /\ WF_vars(Executor)

-----------------------------------------------------------------------------
(* Claims about the task slots, the orchestrator and the executor *)

CycleSteps ==
    {<<"Empty", "Pending">>, <<"Pending", "Ready">>, <<"Ready", "Running">>,
     <<"Running", "Done">>, <<"Done", "Empty">>}

\* C21: every task slot's status follows exactly the cycle Empty, Pending,
\* Ready, Running, Done, Empty under any interleaving of the orchestrator and
\* the executor: every change of a slot's status is one step of the cycle, and
\* no task is handed to a core twice.
C21_StatusCycle ==
    [][/\ \A s \in DOMAIN slot_status :
             slot_status'[s] # slot_status[s]
                 => <<slot_status[s], slot_status'[s]>> \in CycleSteps
       /\ \A k \in Cores :
             cores'[k] # cores[k] /\ cores'[k] # IdleCore => cores'[k] \notin hist.ran]_vars

\* a slot is on its second round: its second occupant runs
C21_Witness ==
    \E s \in DOMAIN slot_status :
        /\ slot_status[s] = "Running"
        /\ tasks[s].task_id >= PTO2_TASK_WINDOW_SIZE

\* the slots that hold a task, and the task the orchestrator is still linking
Occupied == {s \in DOMAIN slot_status : slot_status[s] # "Empty"}
Linking(s) == pc = "link" /\ task_slot(cur.task_id) = s

\* predecessor p of the task in slot s has completed
PredDone(p) ==
    \/ p < last_task_alive
    \/ tasks[task_slot(p)].task_id = p /\ slot_status[task_slot(p)] \in {"Done", "Empty"}

DecrementsOf(s) == {p \in tasks[s].preds : <<p, tasks[s].task_id>> \in hist.dec}

\* C22: a task becomes Ready only when its pending_preds is zero, and
\* pending_preds is decremented exactly once for each predecessor (by the
\* orchestrator at submit time if that predecessor is already Done, otherwise
\* by the executor when it completes), under every interleaving of step 5 with
\* executor completions; hence no task is Ready or Running before all its
\* predecessors are Done, and no task with all predecessors Done stays Pending.
C22_PendingPreds ==
    /\ [](\A s \in Occupied :
            /\ slot_status[s] \in {"Ready", "Running"} => tasks[s].pending_preds = 0
            /\ tasks[s].pending_preds = Cardinality(tasks[s].preds) - Cardinality(DecrementsOf(s))
            /\ slot_status[s] \in {"Ready", "Running"} => \A p \in tasks[s].preds : PredDone(p)
            /\ slot_status[s] = "Pending" /\ ~Linking(s)
                   => \E p \in tasks[s].preds : ~PredDone(p))
    /\ [](hist.twice = {})
    /\ [](\A pr \in hist.dec : pr[2] < submitted_count \/ (pc # "idle" /\ pr[2] = cur.task_id))
    /\ [][\A pr \in hist'.dec \ hist.dec :
             IF pr \in hist'.at_submit
             THEN PredDone(pr[1]) /\ Linking(task_slot(pr[2]))
             ELSE /\ slot_status[task_slot(pr[1])] = "Running"
                  /\ slot_status'[task_slot(pr[1])] = "Done"
                  /\ pr[2] \in {successors[task_slot(pr[1])][i] :
                                   i \in 1..Len(successors[task_slot(pr[1])])}]_vars

\* t3 of the diamond is Ready after one decrement by the orchestrator (its
\* predecessor was Done at submit) and one by the executor
C22_Witness ==
    \E s \in Occupied :
        /\ slot_status[s] = "Ready"
        /\ \E p, q \in tasks[s].preds :
              /\ <<p, tasks[s].task_id>> \in hist.at_submit
              /\ <<q, tasks[s].task_id>> \in hist.dec \ hist.at_submit

Range(seq) == {seq[i] : i \in 1..Len(seq)}

\* the slot of task id holds everything submit_task writes for it: the task's
\* fields, a status, its place in the successor list of every predecessor
\* not yet counted off, and a TensorMap entry for each tensor it produces
FullyInitialised(id) ==
    LET s == task_slot(id)
    IN /\ tasks[s].task_id = id
       /\ slot_status[s] \in {"Pending", "Ready", "Running", "Done"}
       /\ tasks[s].worker_kind \in Range(CoreKinds)
       /\ tasks[s].pending_preds \in 0..Cardinality(tasks[s].preds)
       /\ \A p \in tasks[s].preds :
             <<p, id>> \in hist.dec \/ id \in Range(successors[task_slot(p)])
       /\ \A k \in 1..Len(tasks[s].params) :
             IsProduced(tasks[s].params[k])
                 => \E i \in 0..(tm.pool_size - 1) :
                       /\ tm.entry_pool[i].producer_task_id = id
                       /\ tm.entry_pool[i].tensor = tasks[s].params[k].tensor
                       /\ tm.entry_pool[i].in_bucket

\* the slot of the task under submission has been written by step 4
SlotWritten == pc \in {"link", "insert", "insert_wait"}

\* a step of the executor: a core is given a task or reports, or
\* last_task_alive advances
ExecutorStep == cores' # cores \/ last_task_alive' # last_task_alive

\* the executor never sees a task id below submitted_count whose slot is not
\* fully initialised
C23_PublishedInitialised == \A id \in Polled : FullyInitialised(id)

\* C23 (publication order): the executor never observes a task id below
\* submitted_count whose slot is not fully initialised; the fields, the status,
\* the successor links and the task's TensorMap entries are all written before
\* the release increment of submitted_count, and before that increment only
\* the orchestrator writes the slot.
C23_PublicationOrder ==
    /\ [](\A id \in Polled : FullyInitialised(id))
    /\ [][SlotWritten /\ ExecutorStep
            => /\ tasks'[task_slot(cur.task_id)] = tasks[task_slot(cur.task_id)]
               /\ slot_status'[task_slot(cur.task_id)] = slot_status[task_slot(cur.task_id)]
               /\ successors'[task_slot(cur.task_id)] = successors[task_slot(cur.task_id)]]_vars

\* the statements whose submit_task has returned
Returned ==
    {i \in 1..(ip - 1) : Program[i].op = "submit" /\ (pc = "idle" \/ i < ip - 1)}

\* the caller's tensors that were OUTPUT parameters of a returned submit_task
ReturnedOutputs ==
    UNION {{Program[i].args[k][2] :
               k \in {j \in 1..Len(Program[i].args) : Program[i].args[j][1] = "OUTPUT"}} :
           i \in Returned}

\* the bytes a contiguous 1-D tensor covers
TensorBytes(t) == Segment(t.addr, t.addr + t.repeats[1] * get_element_size(t.dtype))

HeapArena == Segment(heap.base, heap.base + heap.size)

\* C24 (output allocation and back-fill): after submit_task returns, every
\* OUTPUT parameter whose tensor had address 0 carries a non-zero address inside
\* the heap arena, written into the caller's own tensor; the address ranges
\* given to distinct outputs inside one scope do not overlap; OUTPUT tensors
\* that already had a non-zero address keep it.
C24_OutputBackfill ==
    /\ \A name \in ReturnedOutputs :
          IF ProgramTensors(prog)[name].addr = 0
          THEN /\ bufs[name].addr # 0
               /\ contains(HeapArena, TensorBytes(bufs[name]))
               /\ bufs[name] = [ProgramTensors(prog)[name] EXCEPT !.addr = bufs[name].addr]
          ELSE bufs[name] = ProgramTensors(prog)[name]
    /\ \A al \in hist.allocs : bufs[al.name].addr = al.ptr
    /\ \A al, bl \in hist.allocs :
          al.name # bl.name
              => ~line_segment_intersection(TensorBytes(bufs[al.name]), TensorBytes(bufs[bl.name]))

\* the nested program has returned from its last submit_task: z was given the
\* bytes the inner scope gave back, next to x which is still allocated, and g
\* kept its address
C24_Witness ==
    /\ prog = "nested"
    /\ pc = "idle"
    /\ Cardinality(hist.allocs) = 2
    /\ bufs["z"].addr = bufs["y"].addr
    /\ bufs["z"].addr # 0
    /\ bufs["g"].addr = 8192

\* the predecessor sets S1 expects
DiamondDeps == <<{}, {0}, {0}, {1, 2}>>

\* task id is published and Ready, and a worker core of its kind is idle
ReadyWithIdleCore(id) ==
    /\ last_task_alive <= id /\ id < submitted_count
    /\ tasks[task_slot(id)].task_id = id
    /\ slot_status[task_slot(id)] = "Ready"
    /\ \E k \in Cores : cores[k] = IdleCore /\ CoreKinds[k] = tasks[task_slot(id)].worker_kind


TaskDone(id) ==
    \/ id < last_task_alive
    \/ tasks[task_slot(id)].task_id = id /\ slot_status[task_slot(id)] = "Done"

\* C27 (diamond scenario S1): submitting t0 (c = a+b), t1 (d = c+1),
\* t2 (e = c+2), t3 (f = d*e) in this order yields exactly four tasks with
\* deps(t0) = {}, deps(t1) = {t0}, deps(t2) = {t0}, deps(t3) = {t1, t2}, and t3
\* runs only after t1 and t2 are Done.
C27_Diamond ==
    prog = "diamond"
        => /\ submitted_count <= Len(DiamondDeps)
           /\ orchestrator_done = 1 => submitted_count = Len(DiamondDeps)
           /\ \A id \in 0..(submitted_count - 1) :
                 /\ tasks[task_slot(id)].task_id = id
                 /\ tasks[task_slot(id)].preds = DiamondDeps[id + 1]
           /\ 3 \in hist.ran => TaskDone(1) /\ TaskDone(2)

\* t3 runs: t0 and t1 have retired, t2 is Done and not yet retired
C27_Witness ==
    /\ prog = "diamond"
    /\ slot_status[task_slot(3)] = "Running"
    /\ tasks[task_slot(3)].task_id = 3
    /\ tasks[task_slot(3)].preds = {1, 2}
    /\ last_task_alive = 2
    /\ slot_status[task_slot(2)] = "Done"

\* the orchestrator has met a fatal assertion, or spins in a loop that cannot end
Fatal == pc \in {"fault", "hang"}

\* the orchestrator is in the backpressure spin of a full task window
WindowFull ==
    /\ pc \in {"admit", "admit_sync"}
    /\ cur.task_id - last_task_alive >= PTO2_TASK_WINDOW_SIZE

\* C28 (ring-buffer retirement scenario S6): submitting 2 * TASK_WINDOW_SIZE tasks
\* with no dependencies, with an executor that keeps completing Ready tasks,
\* always runs to completion: every backpressure spin (task window full,
\* TensorMap pool slot still in a bucket) ends and no watchdog or other fatal
\* assertion is reached. A run that reaches orchestration_done with every task
\* retired has left every spin.
C28_RingCompletes ==
    /\ [](prog = "ring" => ~Fatal)
    /\ (prog = "ring") ~> (/\ orchestrator_done = 1
                           /\ submitted_count = RingCount
                           /\ last_task_alive = RingCount)

\* C29: orchestrator_done is set to 1 only after the last submit_task has
\* published its submitted_count increment; once orchestrator_done is 1,
\* submitted_count never changes again.
C29_DoneAfterLastPublish ==
    /\ [](orchestrator_done = 1
            => /\ pc = "idle"
               /\ cur = NoCur
               /\ ip > Len(Program)
               /\ submitted_count = Cardinality({i \in 1..Len(Program) : Program[i].op = "submit"}))
    /\ [][orchestrator_done = 1
            => orchestrator_done' = 1 /\ submitted_count' = submitted_count]_vars

\* orchestration is done while the executor still has tasks of the ring
\* scenario to run and retire
C29_Witness ==
    /\ orchestrator_done = 1
    /\ prog = "ring"
    /\ last_task_alive < submitted_count

-----------------------------------------------------------------------------
(* Claims about the links of the TensorMap *)

InBucket == {i \in Pool : tm.entry_pool[i].in_bucket}

\* C31: in every reachable TensorMap state the bucket chains are consistent
\* doubly-linked lists: each entry e with in_bucket set either has
\* prev_in_bucket = -1 and is the head of bucket hash(e.tensor), or is the
\* next_in_bucket of its prev_in_bucket; and if e.next_in_bucket >= 0 then e is
\* the prev_in_bucket of that entry. This holds across insert, lookup
\* truncation, remove_from_bucket and cleanup_retired.
C31_BucketChainsDoublyLinked ==
    \A e \in InBucket :
        LET entry == tm.entry_pool[e]
        IN /\ IF entry.prev_in_bucket = -1
              THEN tm.buckets[pto2_tensormap_hash(tm.num_buckets, entry.tensor)] = e
              ELSE /\ entry.prev_in_bucket \in Pool
                   /\ tm.entry_pool[entry.prev_in_bucket].next_in_bucket = e
           /\ entry.next_in_bucket >= 0
                 => /\ entry.next_in_bucket \in Pool
                    /\ tm.entry_pool[entry.next_in_bucket].prev_in_bucket = e

\* a chain of at least two entries after cleanup_retired has run
C31_Witness ==
    /\ tensormap_last_cleanup > 0
    /\ \E e \in InBucket : tm.entry_pool[e].prev_in_bucket >= 0

\* the entries a walk from the bucket heads along next_in_bucket reaches
Reachable == UNION {chain_offsets(tm, tm.buckets[b], tm.pool_size + 1) : b \in Buckets}

\* C32: in_bucket is true exactly for the entries reachable from some bucket
\* head through next_in_bucket: truncation and cleanup clear the flag on every
\* entry they unlink and on nothing else, and insert sets it only on the entry
\* it links at the head.
C32_FlagIffReachable == InBucket = Reachable

\* a lookup has truncated a chain, an entry written earlier is out of the
\* chains and another one is in
C32_Witness ==
    /\ lk.unlinked # {}
    /\ InBucket # {}
    /\ \E i \in Pool \ InBucket : tm.entry_pool[i].producer_task_id >= 0

-----------------------------------------------------------------------------
(* Claims about the segment iterator, the fuzzy segment, missed overlaps,  *)
(* views and reshape                                                       *)

SegmentOffsets(seg) == seg.begin..(seg.end - 1)

MinOffset(S) == CHOOSE o \in S : \A p \in S : o <= p

MaxOffset(S) == CHOOSE o \in S : \A p \in S : p <= o

\* C34 as stated: for every descriptor get_fuzzy_seg is the smallest element
\* interval enclosing every element the descriptor reaches: begin is the least
\* reachable offset (start_offset), end - 1 the greatest, and begin < end.
C34_FuzzySegEncloses ==
    tn.op = "get_fuzzy_seg" =>
        /\ ElemOffsets(tn.self) # {}
        /\ tn.result.begin = tn.self.start_offset
        /\ tn.result.begin = MinOffset(ElemOffsets(tn.self))
        /\ tn.result.end - 1 = MaxOffset(ElemOffsets(tn.self))
        /\ tn.result.begin < tn.result.end

\* C34 amended: for every descriptor whose repeats are all at least 1,
\* get_fuzzy_seg is the smallest element interval enclosing every element the
\* descriptor reaches: begin is the least reachable offset, which is
\* start_offset, end - 1 the greatest, and begin < end.  (A descriptor with a
\* repeat of 0, such as the view of no element that valid_view accepts, reaches
\* nothing, and its segment is empty or encloses offsets that are not reached.)
C34_FuzzySegEnclosesNonEmpty ==
    (tn.op = "get_fuzzy_seg" /\ \A i \in 1..tn.self.ndims : tn.self.repeats[i] >= 1) =>
        /\ tn.result.begin = tn.self.start_offset
        /\ tn.result.begin = MinOffset(ElemOffsets(tn.self))
        /\ tn.result.end - 1 = MaxOffset(ElemOffsets(tn.self))
        /\ tn.result.begin < tn.result.end

\* the fuzzy segment of a transposed 3-D descriptor, whose strides are not in
\* descending order
C34_Witness ==
    /\ tn.op = "get_fuzzy_seg" /\ tn.self.ndims = 3
    /\ \E i \in 2..3 : tn.self.strides[i - 1] < tn.self.strides[i]
    /\ tn.result.end - tn.result.begin > Cardinality(ElemOffsets(tn.self))

SharedBytes == ReachBytes(ovR) \cap ReachBytes(ovP)

\* C35: is_overlap never misses a real overlap: for normalized descriptors on
\* the same base address with equal versions, if at least one byte is reachable
\* through both the reader and the producer, the result is COVERED or OTHER and
\* never NO_OVERLAP, on every path (1-D, hyper-rectangle, complex).
C35_NoMissedOverlap ==
    (/\ ovPc = "done"
     /\ is_same_memref(ovR, ovP) /\ ovR.version = ovP.version
     /\ SharedBytes # {})
        => ovFwd.status \in {"COVERED", "OTHER"}

\* descriptors of different strides and dtypes that share bytes, told apart by
\* the segment walk
C35_Witness ==
    /\ ovPc = "done" /\ is_same_memref(ovR, ovP) /\ ovR.version = ovP.version
    /\ SharedBytes # {}
    /\ ovR.ndims = 2 /\ ovP.ndims = 2 /\ ovR.strides # ovP.strides
    /\ ovR.dtype # ovP.dtype
    /\ ovFwd = Result("OTHER", TRUE)

\* C36: for a view accepted by valid_view (shapes[i] + offsets[i] <= repeats[i]
\* on every dimension), every element offset reachable through the view is
\* reachable through the source descriptor, and the view's start_offset is the
\* source's start_offset plus the sum of offsets[i] * strides[i].
C36_ViewInsideSource ==
    (tn.op = "view" /\ valid_view(tn.self, tn.args[1], tn.args[2])) =>
        /\ tn.status = "OK"
        /\ ElemOffsets(tn.result) \subseteq ElemOffsets(tn.self)
        /\ tn.result.start_offset = OffsetAt(tn.self, tn.args[2], tn.self.ndims)

\* a view of a transposed 3-D descriptor that starts one step in and is one
\* element shorter along a dimension
C36_Witness ==
    /\ tn.op = "view" /\ valid_view(tn.self, tn.args[1], tn.args[2])
    /\ tn.self.ndims = 3 /\ tn.self.strides[1] < tn.self.strides[2]
    /\ tn.result.start_offset > tn.self.start_offset
    /\ ElemOffsets(tn.result) # {} /\ ElemOffsets(tn.result) # ElemOffsets(tn.self)

-----------------------------------------------------------------------------
(* Claims about the per-task entry lists and the wait for a pool slot *)

\* a walk along next_in_task from offset comes to an end
RECURSIVE task_chain_ends(_, _)
task_chain_ends(offset, fuel) ==
    IF offset < 0 THEN TRUE
    ELSE IF fuel = 0 THEN FALSE
    ELSE task_chain_ends(tm.entry_pool[offset].next_in_task, fuel - 1)

\* C38: cleanup_retired terminates in every reachable TensorMap state: the
\* per-task chains followed through next_in_task from task_entry_head never
\* contain a cycle, for any sequence of insert, lookup, sync_validity and
\* cleanup_retired in which pool slots are reused by later tasks (including a
\* task mapping to the same window slot).
C38_CleanupTerminates ==
    /\ pc # "hang"
    /\ \A s \in Slots : task_chain_ends(tm.task_entry_head[s], tm.pool_size)

\* the entries a walk along next_in_task from offset visits
RECURSIVE task_chain(_, _)
task_chain(offset, fuel) ==
    IF offset < 0 \/ fuel = 0 THEN {}
    ELSE {offset} \cup task_chain(tm.entry_pool[offset].next_in_task, fuel - 1)

TaskEntries(task_id) ==
    task_chain(tm.task_entry_head[BitAnd(task_id, PTO2_TASK_WINDOW_SIZE - 1)], tm.pool_size)

\* C39: every in-bucket entry of a task that cleanup_retired has not yet passed
\* is reachable from task_entry_head[task_id mod WINDOW]: cleanup_retired for a
\* retired task t never clears or breaks the list of a later task t + WINDOW
\* that shares its slot and is still live.
C39_LiveEntriesOnTaskList ==
    \A e \in InBucket :
        tm.entry_pool[e].producer_task_id >= tensormap_last_cleanup
            => e \in TaskEntries(tm.entry_pool[e].producer_task_id)

\* the steps of the orchestrator that walk no chain
TmOrchestrator ==
    \/ AdmitTask
    \/ AdmitSync
    \/ InitTaskSlot
    \/ InsertAlloc
    \/ InsertLink
    \/ Publish

\* Spec with an orchestrator thread that keeps running and an executor that
\* retires every published task.  The weak fairness of LookupParam and of
\* InsertSpin is written out with their enabling conditions.
SpecFair ==
    /\ Init /\ [][Next]_vars
    /\ WF_vars(TmOrchestrator)
    /\ WF_vars(RetireTask)
    /\ ([]<>(~LookupEnabled) \/ []<><<LookupParam>>_vars)
    /\ ([]<>(~SpinEnabled) \/ []<><<InsertSpin>>_vars)

\* the insert of the task under submission waits for a pool slot whose producer
\* has retired
WaitsOnRetired ==
    /\ pc = "insert_wait"
    /\ insert_must_wait(tm, entry_offset)
    /\ tm.entry_pool[entry_offset].producer_task_id < last_task_alive

\* C40: an insert that waits on a pool slot whose producer has retired
\* eventually obtains the slot: the repeated sync calls clear in_bucket and the
\* watchdog does not fire, for every value of
\* last_task_alive - tensormap_last_cleanup (also when it stays below the
\* cleanup interval).
C40_WaitOnRetiredEnds ==
    WaitsOnRetired ~> (pc = "insert_wait" /\ ~insert_must_wait(tm, entry_offset))

\* the wait that no step ends: every published task has retired, and the sync
\* neither runs the cleanup nor changes anything
WaitNeverEnds ==
    /\ WaitsOnRetired
    /\ last_task_alive = submitted_count
    /\ last_task_alive - tensormap_last_cleanup < CleanupInterval
    /\ tm.last_task_alive = last_task_alive
    /\ lk = NoLookup

=========================================================================
